---------------------------- MODULE Spec2Model ----------------------------
(***************************************************************************)
(* Phishing-website detection: the rule-based URL scoring engine           *)
(* (featureExtraction, advancedDetection), the single-URL page handler     *)
(* (Index.handleAnalyze) and the batch handler                             *)
(* (BatchAnalysis.handleAnalyze).                                          *)
(*                                                                         *)
(* Conventions of the model                                                *)
(*  - A JavaScript string is a sequence of characters; a character is a    *)
(*    one-character TLA+ string ("a", ":", " ").  Str("abc") turns a       *)
(*    literal into such a sequence.                                        *)
(*  - A rule weight (0, 1, 1.5, 2, 2.5, 3, 3.5 in the source) is held in   *)
(*    tenths: 0, 10, 15, 20, 25, 30, 35.                                   *)
(*  - entropyScore (a float rounded to 2 decimals in the source) is held   *)
(*    in hundredths of a bit: 3.01 is 301.                                 *)
(*  - null is the model value Null.                                        *)
(***************************************************************************)
EXTENDS Integers, Sequences, FiniteSets, TLC

VARIABLES
    \* ---- one call of a pure function of the engine (SpecRules)
    rpc,            \* "call" before the function runs, "return" after
    fn,             \* which function is called
    arg,            \* its argument
    ret,            \* its return value, Null before the call returns
    \* ---- the single-URL page, Index (Spec)
    reqUrl,         \* the URL handleAnalyze was called with, <<>> before the call
    pc,             \* "idle" | "delay" (inside the simulated delay) | "shown"
    isAnalyzing,    \* useState(false)
    result,         \* useState<AnalysisState | null>(null)
    activeTab,      \* useState('single')
    history,        \* the page-level useScanHistory instance's history
    locals,         \* handleAnalyze's features and advancedFeatures
    \* ---- the batch tab, BatchAnalysis (SpecBatch)
    urls,           \* useState(''): the text of the textarea
    urlList,        \* parseUrls(urls) of the run
    bpc,            \* "off" (not mounted) | "idle" | "loop" (inside handleAnalyze's for loop)
    idx,            \* the loop index i of handleAnalyze
    batchResults,   \* the local array the loop pushes to
    results,        \* useState<BatchResult[]>([])
    progress,       \* useState(0): the percentage (i + 1) / n * 100 as <<i + 1, n>>
    batchIsAnalyzing, \* BatchAnalysis's own useState(false)
    csv,            \* the text of the last file exportResults offered, <<>> if none
    batchOps,       \* the number of edits and clicks on the batch tab so far
    \* useScanHistory, one instance of the hook (its history is `history`)
    isLoaded,       \* useState(false)
    storage,        \* localStorage[STORAGE_KEY]: NoItem or Stored(list)
    nextId,         \* the clock of Date.now(): the id and timestamp of the next item
    hops,           \* the number of calls of the hook's functions so far
    saveDue,        \* the save effect of the instance's last render has not run yet
    queue,          \* the updates made in effects and timers, not rendered yet
    baseHistory,    \* the history the queued updates are applied to
    \* ---- the history tab, ScanHistory, with its own instance of the hook
    viewLoaded,     \* the tab is mounted and its instance has loaded
    viewHistory,    \* the history of the tab's instance
    removed,        \* the ids removed or cleared in the tab so far
    viewSaveDue,    \* the save effect of the tab's instance has not run yet
    \* ---- overlapping calls of handleAnalyze
    pending         \* the URLs of the calls inside their simulated delay, oldest first

vars == <<rpc, fn, arg, ret, reqUrl, pc, isAnalyzing, result, activeTab, history, locals,
          urls, urlList, bpc, idx, batchResults, results, progress, batchIsAnalyzing,
          csv, batchOps, isLoaded, storage, nextId, hops, saveDue, queue,
          baseHistory, viewLoaded, viewHistory, removed, viewSaveDue, pending>>

ruleVars  == <<rpc, fn, arg, ret>>
pageVars  == <<reqUrl, pc, isAnalyzing, result, activeTab, history, locals>>
batchVars == <<urls, urlList, bpc, idx, batchResults, results, progress, batchIsAnalyzing,
               csv, batchOps>>
hookVars  == <<isLoaded, storage, nextId, hops, saveDue, queue, baseHistory>>
viewVars  == <<viewLoaded, viewHistory, removed, viewSaveDue>>
overlapVars == <<pending>>

Null == "null"

-----------------------------------------------------------------------------
(* Strings and arithmetic of the platform *)

\* a literal as a sequence of one-character strings
Str(s) == [k \in 1..Len(s) |-> SubSeq(s, k, k)]

Min(a, b) == IF a < b THEN a ELSE b
Max(a, b) == IF a > b THEN a ELSE b

\* the characters of s at the positions from..to that s has (1-based)
slice(s, from, to) ==
    LET lo == Max(from, 1)
        hi == Min(to, Len(s))
    IN  IF lo > hi THEN <<>> ELSE SubSeq(s, lo, hi)

\* Math.round(n / d) for n >= 0, d > 0: halves round up
RoundDiv(n, d) == (2 * n + d) \div (2 * d)

\* String.prototype.includes / startsWith / endsWith / indexOf (0-based, -1)
includes(s, p) ==
    /\ Len(p) <= Len(s)
    /\ \E k \in 1..(Len(s) - Len(p) + 1) : slice(s, k, k + Len(p) - 1) = p

startsWith(s, p) == Len(p) <= Len(s) /\ slice(s, 1, Len(p)) = p

endsWith(s, p) == Len(p) <= Len(s) /\ slice(s, Len(s) - Len(p) + 1, Len(s)) = p

indexOf(s, p) ==
    IF includes(s, p)
    THEN (CHOOSE k \in 1..(Len(s) - Len(p) + 1) :
             /\ slice(s, k, k + Len(p) - 1) = p
             /\ \A j \in 1..(k - 1) : slice(s, j, j + Len(p) - 1) # p) - 1
    ELSE -1

\* s.substring(from) with a 0-based index
substringFrom(s, from) == slice(s, Max(from, 0) + 1, Len(s))

UpperCase == Str("ABCDEFGHIJKLMNOPQRSTUVWXYZ")
LowerCase == Str("abcdefghijklmnopqrstuvwxyz")

lowerChar(c) ==
    IF \E k \in 1..26 : UpperCase[k] = c
    THEN LowerCase[CHOOSE k \in 1..26 : UpperCase[k] = c]
    ELSE c

upperChar(c) ==
    IF \E k \in 1..26 : LowerCase[k] = c
    THEN UpperCase[CHOOSE k \in 1..26 : LowerCase[k] = c]
    ELSE c

toLowerCase(s) == [k \in 1..Len(s) |-> lowerChar(s[k])]
toUpperCase(s) == [k \in 1..Len(s) |-> upperChar(s[k])]

Digits == {"0", "1", "2", "3", "4", "5", "6", "7", "8", "9"}
isDigit(c) == c \in Digits
digitValue(c) == CHOOSE n \in 0..9 : Str("0123456789")[n + 1] = c

isAlpha(c) == \E k \in 1..26 : UpperCase[k] = c \/ LowerCase[k] = c

\* the position (1-based) of the first c in s, Len(s) + 1 when there is none
firstPos(s, c) ==
    IF \E k \in 1..Len(s) : s[k] = c
    THEN CHOOSE k \in 1..Len(s) : s[k] = c /\ \A j \in 1..(k - 1) : s[j] # c
    ELSE Len(s) + 1

\* s.split(c)[0]
splitFirst(s, c) == slice(s, 1, firstPos(s, c) - 1)

\* s.split(c), strictly (empty pieces kept)
RECURSIVE split(_, _)
split(s, c) ==
    LET p == firstPos(s, c)
    IN  IF p > Len(s) THEN <<s>>
        ELSE <<slice(s, 1, p - 1)>> \o split(slice(s, p + 1, Len(s)), c)

\* the number of occurrences of c in s: (s.match(/c/g) || []).length
countChar(s, c) == Cardinality({k \in 1..Len(s) : s[k] = c})

-----------------------------------------------------------------------------
(* featureExtraction: the basic analyzer, Index.tsx 340-459 *)

RiskLevels == {"safe", "warning", "danger"}

Finding(feature, value, riskLevel, description, weight) ==
    [feature |-> feature, value |-> value, riskLevel |-> riskLevel,
     description |-> description, weight |-> weight]

\* mutant: the warning and danger weights of the URL-length rule swapped
ruleUrlLength_SwappedWeights(features) ==
    Finding("URL Length", features.urlLength,
        IF features.urlLength > 75 THEN "danger"
        ELSE IF features.urlLength > 54 THEN "warning" ELSE "safe",
        "Normal URL length",
        IF features.urlLength > 75 THEN 10
        ELSE IF features.urlLength > 54 THEN 20 ELSE 0)

ruleUrlLength(features) ==
    Finding("URL Length", features.urlLength,
        IF features.urlLength > 75 THEN "danger"
        ELSE IF features.urlLength > 54 THEN "warning" ELSE "safe",
        IF features.urlLength > 75
        THEN "Excessively long URLs are often used to hide malicious content"
        ELSE IF features.urlLength > 54
             THEN "Moderately long URL - could be suspicious"
             ELSE "Normal URL length",
        IF features.urlLength > 75 THEN 20
        ELSE IF features.urlLength > 54 THEN 10 ELSE 0)

ruleAtSymbol(features) ==
    Finding("@ Symbol Present", features.hasAtSymbol,
        IF features.hasAtSymbol THEN "danger" ELSE "safe",
        IF features.hasAtSymbol
        THEN "@ symbol in URL can redirect to a different site"
        ELSE "No @ symbol detected",
        IF features.hasAtSymbol THEN 30 ELSE 0)

ruleDoubleSlash(features) ==
    Finding("Double Slash (//) in Path", features.hasDoubleSlash,
        IF features.hasDoubleSlash THEN "warning" ELSE "safe",
        IF features.hasDoubleSlash
        THEN "Unusual double slash pattern detected"
        ELSE "No suspicious slash patterns",
        IF features.hasDoubleSlash THEN 15 ELSE 0)

\* mutant: the dash rule weighing 1.5
ruleDash_HeavierWeight(features) ==
    Finding("Dash (-) in Domain", features.hasDash,
        IF features.hasDash THEN "warning" ELSE "safe",
        IF features.hasDash
        THEN "Dashes in domain names are often used in phishing (e.g., secure-login-bank.com)"
        ELSE "No dashes in domain",
        IF features.hasDash THEN 15 ELSE 0)

ruleDash(features) ==
    Finding("Dash (-) in Domain", features.hasDash,
        IF features.hasDash THEN "warning" ELSE "safe",
        IF features.hasDash
        THEN "Dashes in domain names are often used in phishing (e.g., secure-login-bank.com)"
        ELSE "No dashes in domain",
        IF features.hasDash THEN 10 ELSE 0)

ruleIPAddress(features) ==
    Finding("IP Address Instead of Domain", features.hasIPAddress,
        IF features.hasIPAddress THEN "danger" ELSE "safe",
        IF features.hasIPAddress
        THEN "IP address used instead of domain name - highly suspicious"
        ELSE "Normal domain name used",
        IF features.hasIPAddress THEN 30 ELSE 0)

ruleHTTPS(features) ==
    Finding("HTTPS Protocol", features.isHTTPS,
        IF features.isHTTPS THEN "safe" ELSE "warning",
        IF features.isHTTPS
        THEN "Secure HTTPS connection"
        ELSE "No HTTPS - connection is not encrypted",
        IF features.isHTTPS THEN 0 ELSE 15)

ruleSubdomainCount(features) ==
    Finding("Subdomain Count", features.subdomainCount,
        IF features.hasMultipleSubdomains THEN "danger"
        ELSE IF features.subdomainCount > 1 THEN "warning" ELSE "safe",
        IF features.hasMultipleSubdomains
        THEN "Too many subdomains - common phishing technique"
        ELSE IF features.subdomainCount > 1
             THEN "Multiple subdomains detected"
             ELSE "Normal subdomain structure",
        IF features.hasMultipleSubdomains THEN 25
        ELSE IF features.subdomainCount > 1 THEN 10 ELSE 0)

ruleSuspiciousKeywords(features) ==
    Finding("Suspicious Keywords", features.hasSuspiciousKeywords,
        IF features.hasSuspiciousKeywords THEN "warning" ELSE "safe",
        IF features.hasSuspiciousKeywords
        THEN "Contains keywords commonly used in phishing"
        ELSE "No suspicious keywords detected",
        IF features.hasSuspiciousKeywords THEN 15 ELSE 0)

ruleEncodedChars(features) ==
    Finding("Encoded Characters", features.hasEncodedChars,
        IF features.hasEncodedChars THEN "warning" ELSE "safe",
        IF features.hasEncodedChars
        THEN "URL contains encoded characters - may hide malicious content"
        ELSE "No suspicious encoding",
        IF features.hasEncodedChars THEN 10 ELSE 0)

\* analyzeFeatures(features): the nine findings, pushed in this order
analyzeFeatures(features) ==
    << ruleUrlLength(features),
       ruleAtSymbol(features),
       ruleDoubleSlash(features),
       ruleDash(features),
       ruleIPAddress(features),
       ruleHTTPS(features),
       ruleSubdomainCount(features),
       ruleSuspiciousKeywords(features),
       ruleEncodedChars(features) >>

\* analysis.reduce((sum, item) => sum + item.weight, 0), in tenths
RECURSIVE totalWeight(_)
totalWeight(analysis) ==
    IF analysis = <<>> THEN 0
    ELSE totalWeight(slice(analysis, 1, Len(analysis) - 1))
         + analysis[Len(analysis)].weight

\* Math.min(100, Math.round((totalWeight / 17) * 100)).  The weight sum is a
\* multiple of 0.5, so (sum / 17) * 100 is never within 1/34 of a half except
\* at sum = 8.5, where it is exactly 50: Math.round of the float is the
\* rounding of the exact quotient.
calculateRiskScore(analysis) ==
    LET maxPossibleWeight == 17
    IN  Min(100, RoundDiv(totalWeight(analysis) * 100, maxPossibleWeight * 10))

\* mutant: the lower threshold taken inclusively
classifyURL_InclusiveThreshold(riskScore) ==
    IF riskScore <= 25 THEN "legitimate"
    ELSE IF riskScore < 50 THEN "suspicious"
    ELSE "phishing"

classifyURL(riskScore) ==
    IF riskScore < 25 THEN "legitimate"
    ELSE IF riskScore < 50 THEN "suspicious"
    ELSE "phishing"

-----------------------------------------------------------------------------
(* advancedDetection: the advanced analyzer, part_000 272-397 *)

AdvancedFinding(feature, value, riskLevel, description, weight, category) ==
    [feature |-> feature, value |-> value, riskLevel |-> riskLevel,
     description |-> description, weight |-> weight, category |-> category]

ruleEntropy(features) ==
    AdvancedFinding("Domain Entropy", features.entropyScore,
        IF features.entropyScore > 400 THEN "danger"
        ELSE IF features.entropyScore > 300 THEN "warning" ELSE "safe",
        IF features.entropyScore > 400
        THEN "High randomness in domain suggests auto-generated phishing domain"
        ELSE IF features.entropyScore > 300
             THEN "Moderate entropy - domain may be suspicious"
             ELSE "Normal domain entropy",
        IF features.entropyScore > 400 THEN 25
        ELSE IF features.entropyScore > 300 THEN 10 ELSE 0,
        "entropy")

ruleHomograph(features) ==
    AdvancedFinding("Homograph Characters", features.hasHomographChars,
        IF features.hasHomographChars THEN "danger" ELSE "safe",
        IF features.hasHomographChars
        THEN "Contains lookalike characters (Cyrillic/special) - IDN homograph attack"
        ELSE "No suspicious lookalike characters",
        IF features.hasHomographChars THEN 30 ELSE 0,
        "impersonation")

\* mutant: the brand rule weighing 3
ruleBrandImpersonation_LighterWeight(features) ==
    LET brand == features.brandImpersonation # Null
    IN  AdvancedFinding("Brand Impersonation",
            IF brand THEN features.brandImpersonation ELSE "None",
            IF brand THEN "danger" ELSE "safe",
            IF brand
            THEN <<"Appears to impersonate ", features.brandImpersonation,
                   " - likely phishing">>
            ELSE "No brand impersonation detected",
            IF brand THEN 30 ELSE 0,
            "impersonation")

ruleBrandImpersonation(features) ==
    LET brand == features.brandImpersonation # Null
    IN  AdvancedFinding("Brand Impersonation",
            IF brand THEN features.brandImpersonation ELSE "None",
            IF brand THEN "danger" ELSE "safe",
            IF brand
            THEN <<"Appears to impersonate ", features.brandImpersonation,
                   " - likely phishing">>
            ELSE "No brand impersonation detected",
            IF brand THEN 35 ELSE 0,
            "impersonation")

ruleTyposquatting(features) ==
    AdvancedFinding("Typosquatting Risk", <<features.typosquattingScore, "%">>,
        IF features.typosquattingScore > 50 THEN "danger"
        ELSE IF features.typosquattingScore > 20 THEN "warning" ELSE "safe",
        IF features.typosquattingScore > 50
        THEN "High typosquatting risk - domain mimics legitimate site"
        ELSE IF features.typosquattingScore > 20
             THEN "Moderate typosquatting indicators detected"
             ELSE "Low typosquatting risk",
        IF features.typosquattingScore > 50 THEN 25
        ELSE IF features.typosquattingScore > 20 THEN 10 ELSE 0,
        "impersonation")

ruleSuspiciousTLD(features) ==
    AdvancedFinding("Suspicious TLD", features.suspiciousTLD,
        IF features.suspiciousTLD THEN "warning" ELSE "safe",
        IF features.suspiciousTLD
        THEN "Uses a TLD commonly associated with phishing/spam"
        ELSE "TLD is not typically associated with phishing",
        IF features.suspiciousTLD THEN 15 ELSE 0,
        "reputation")

rulePunycode(features) ==
    AdvancedFinding("Punycode (xn--) Domain", features.punycodeDomain,
        IF features.punycodeDomain THEN "danger" ELSE "safe",
        IF features.punycodeDomain
        THEN "Internationalized domain name - potential IDN attack vector"
        ELSE "Standard ASCII domain",
        IF features.punycodeDomain THEN 20 ELSE 0,
        "impersonation")

ruleShortenedURL(features) ==
    AdvancedFinding("Shortened URL", features.shortenedURL,
        IF features.shortenedURL THEN "warning" ELSE "safe",
        IF features.shortenedURL
        THEN "URL shortener detected - destination hidden"
        ELSE "Not a shortened URL",
        IF features.shortenedURL THEN 15 ELSE 0,
        "structure")

ruleRedirect(features) ==
    AdvancedFinding("Redirect Patterns", features.redirectRisk,
        IF features.redirectRisk THEN "warning" ELSE "safe",
        IF features.redirectRisk
        THEN "URL contains redirect parameters - may lead elsewhere"
        ELSE "No suspicious redirect patterns",
        IF features.redirectRisk THEN 10 ELSE 0,
        "structure")

rulePortAnomalies(features) ==
    AdvancedFinding("Port Anomalies", features.portAnomalies,
        IF features.portAnomalies THEN "warning" ELSE "safe",
        IF features.portAnomalies
        THEN "Non-standard port used - unusual for legitimate sites"
        ELSE "Standard port usage",
        IF features.portAnomalies THEN 10 ELSE 0,
        "structure")

\* mutant: the brand finding pushed only when a brand was detected
analyzeAdvancedFeatures_ConditionalPush(features) ==
    << ruleEntropy(features), ruleHomograph(features) >>
    \o (IF features.brandImpersonation # Null
        THEN <<ruleBrandImpersonation(features)>> ELSE <<>>)
    \o << ruleTyposquatting(features), ruleSuspiciousTLD(features),
          rulePunycode(features), ruleShortenedURL(features),
          ruleRedirect(features), rulePortAnomalies(features) >>

\* analyzeAdvancedFeatures(features): the nine findings, pushed in this order
analyzeAdvancedFeatures(features) ==
    << ruleEntropy(features),
       ruleHomograph(features),
       ruleBrandImpersonation(features),
       ruleTyposquatting(features),
       ruleSuspiciousTLD(features),
       rulePunycode(features),
       ruleShortenedURL(features),
       ruleRedirect(features),
       rulePortAnomalies(features) >>

\* mutant: the clamp to 100 left out
calculateAdvancedRiskScore_NoClamp(analysis) ==
    RoundDiv(totalWeight(analysis) * 100, 180)

\* Math.min(100, Math.round((totalWeight / 18) * 100)); (sum / 18) * 100 is
\* 25 * k / 9 for the integer k = 2 * sum and is never a half.
calculateAdvancedRiskScore(analysis) ==
    LET maxPossibleWeight == 18
    IN  Min(100, RoundDiv(totalWeight(analysis) * 100, maxPossibleWeight * 10))

-----------------------------------------------------------------------------
(* The combiner, written inline in both handlers *)

\* Index.handleAnalyze: Math.round((riskScore * 0.4) + (advancedScore * 0.6)).
\* For integers the exact value is (2 b + 3 a) / 5, whose fraction is one of
\* 0, .2, .4, .6, .8, so the float is never near a half.
\* mutant: the two layer weights exchanged
combinedScoreOf_SwappedWeights(riskScore, advancedScore) ==
    RoundDiv(riskScore * 6 + advancedScore * 4, 10)

combinedScoreOf(riskScore, advancedScore) ==
    RoundDiv(riskScore * 4 + advancedScore * 6, 10)

\* Index.handleAnalyze: finalClassification
finalClassificationOf(combinedScore) ==
    IF combinedScore < 25 THEN "legitimate"
    ELSE IF combinedScore < 50 THEN "suspicious"
    ELSE "phishing"

\* the two layer weights exchanged
batchCombinedScoreOf_SwappedWeights(basicScore, advancedScore) ==
    RoundDiv(basicScore * 6 + advancedScore * 4, 10)

\* BatchAnalysis.handleAnalyze: Math.round((basicScore * 0.4) + (advancedScore * 0.6))
batchCombinedScoreOf(basicScore, advancedScore) ==
    RoundDiv(basicScore * 4 + advancedScore * 6, 10)

\* BatchAnalysis.handleAnalyze: classification
batchClassificationOf(combinedScore) ==
    IF combinedScore < 25 THEN "legitimate"
    ELSE IF combinedScore < 50 THEN "suspicious"
    ELSE "phishing"

-----------------------------------------------------------------------------
(* advancedDetection: tables, part_000 26-61 *)

\* non-ASCII characters of the tables, named by code point
CyrA == "U+0430"
CyrO == "U+043E"

\* TARGET_BRANDS; patterns[1] is the canonical pattern (patterns[0] in the source)
TARGET_BRANDS ==
    << [name |-> "PayPal",
        patterns |-> << Str("paypal"), Str("paypa1"), Str("paypai"), Str("paypaI"),
                        <<"p", CyrA>> \o Str("ypal") >>],
       [name |-> "Amazon",
        patterns |-> << Str("amazon"), Str("amaz0n"), Str("amaz") \o <<CyrO, "n">>,
                        Str("arnazon") >>],
       [name |-> "Apple",
        patterns |-> << Str("apple"), Str("app1e"), <<CyrA>> \o Str("pple"),
                        Str("appIe") >>],
       [name |-> "Microsoft",
        patterns |-> << Str("microsoft"), Str("micr0soft"),
                        Str("micr") \o <<CyrO>> \o Str("soft") >>],
       [name |-> "Google",
        patterns |-> << Str("google"), Str("g00gle"), Str("goog1e"),
                        Str("go") \o <<CyrO>> \o Str("gle") >>],
       [name |-> "Netflix",
        patterns |-> << Str("netflix"), Str("netf1ix"), Str("netfIix") >>],
       [name |-> "Facebook",
        patterns |-> << Str("facebook"), Str("faceb00k"),
                        <<"f", CyrA>> \o Str("cebook") >>],
       [name |-> "Instagram",
        patterns |-> << Str("instagram"), Str("instagran"), Str("1nstagram") >>],
       [name |-> "Twitter",
        patterns |-> << Str("twitter"), Str("twltter"), Str("tw1tter") >>],
       [name |-> "LinkedIn",
        patterns |-> << Str("linkedin"), Str("linkedln"), Str("l1nkedin") >>],
       [name |-> "Chase",
        patterns |-> << Str("chase"), Str("chas3"), Str("ch") \o <<CyrA>> \o Str("se") >>],
       [name |-> "Bank of America",
        patterns |-> << Str("bankofamerica"), Str("bank0famerica") >>],
       [name |-> "Wells Fargo",
        patterns |-> << Str("wellsfargo"), Str("we11sfargo") >>] >>

SUSPICIOUS_TLDS ==
    << Str(".tk"), Str(".ml"), Str(".ga"), Str(".cf"), Str(".gq"), Str(".xyz"),
       Str(".top"), Str(".club"), Str(".work"), Str(".date"), Str(".loan"),
       Str(".online"), Str(".site"), Str(".website"), Str(".space"), Str(".win"),
       Str(".bid"), Str(".stream"), Str(".racing"), Str(".download") >>

URL_SHORTENERS ==
    << Str("bit.ly"), Str("tinyurl.com"), Str("t.co"), Str("goo.gl"), Str("ow.ly"),
       Str("is.gd"), Str("buff.ly"), Str("j.mp"), Str("short.link"), Str("rb.gy"),
       Str("cutt.ly"), Str("shorturl.at") >>

\* Object.keys(HOMOGRAPH_MAP)
HOMOGRAPH_CHARS ==
    { "U+0430", "U+0435", "U+043E", "U+0440", "U+0441", "U+0443", "U+0445",
      "U+0456", "U+0458", "U+0455", "U+0501", "U+051B", "U+0261", "U+03BD",
      "0", "1", "3", "4", "5", "8" }

-----------------------------------------------------------------------------
(* advancedDetection: the detectors, part_000 63-237 *)

\* round(log2(n) * 10^6) for n = 1..128: Math.log2 on the character counts
Log2Micro ==
    << 0, 1000000, 1584963, 2000000, 2321928, 2584963, 2807355, 3000000,
       3169925, 3321928, 3459432, 3584963, 3700440, 3807355, 3906891, 4000000,
       4087463, 4169925, 4247928, 4321928, 4392317, 4459432, 4523562, 4584963,
       4643856, 4700440, 4754888, 4807355, 4857981, 4906891, 4954196, 5000000,
       5044394, 5087463, 5129283, 5169925, 5209453, 5247928, 5285402, 5321928,
       5357552, 5392317, 5426265, 5459432, 5491853, 5523562, 5554589, 5584963,
       5614710, 5643856, 5672425, 5700440, 5727920, 5754888, 5781360, 5807355,
       5832890, 5857981, 5882643, 5906891, 5930737, 5954196, 5977280, 6000000,
       6022368, 6044394, 6066089, 6087463, 6108524, 6129283, 6149747, 6169925,
       6189825, 6209453, 6228819, 6247928, 6266787, 6285402, 6303781, 6321928,
       6339850, 6357552, 6375039, 6392317, 6409391, 6426265, 6442943, 6459432,
       6475733, 6491853, 6507795, 6523562, 6539159, 6554589, 6569856, 6584963,
       6599913, 6614710, 6629357, 6643856, 6658211, 6672425, 6686501, 6700440,
       6714246, 6727920, 6741467, 6754888, 6768184, 6781360, 6794416, 6807355,
       6820179, 6832890, 6845490, 6857981, 6870365, 6882643, 6894818, 6906891,
       6918863, 6930737, 6942515, 6954196, 6965784, 6977280, 6988685, 7000000 >>

\* calculateEntropy(str), in hundredths of a bit.  The source sums
\* -(c/len) * log2(c/len) over the distinct characters, c the character's
\* count; that is the sum over the positions k of (log2(len) - log2(c_k)) / len,
\* c_k the count of the character at k.  Math.round(entropy * 100) / 100.
RECURSIVE entropyMicroSum(_, _)
entropyMicroSum(str, k) ==
    IF k = 0 THEN 0
    ELSE entropyMicroSum(str, k - 1)
         + Log2Micro[Len(str)] - Log2Micro[countChar(str, str[k])]

\* mutant: rounded to one decimal
calculateEntropy_OneDecimal(str) ==
    LET len == Len(str)
    IN  IF len = 0 THEN 0
        ELSE 10 * RoundDiv(entropyMicroSum(str, len), len * 100000)

calculateEntropy(str) ==
    LET len == Len(str)
    IN  IF len = 0 THEN 0
        ELSE RoundDiv(entropyMicroSum(str, len), len * 10000)

\* detectHomographs(domain)
detectHomographs(domain) == \E k \in 1..Len(domain) : domain[k] \in HOMOGRAPH_CHARS

\* levenshteinDistance(a, b): row i of the matrix from row i - 1, left to right;
\* a row is the sequence matrix[i][0..a.length], held 1-based
RECURSIVE levenshteinRow(_, _, _, _, _)
levenshteinRow(a, b, row, prev, cur) ==
    IF Len(cur) = Len(a) + 1 THEN cur
    ELSE LET j == Len(cur)
             cell == IF b[row] = a[j] THEN prev[j]
                     ELSE Min(prev[j] + 1, Min(cur[j] + 1, prev[j + 1] + 1))
         IN  levenshteinRow(a, b, row, prev, Append(cur, cell))

RECURSIVE levenshteinRows(_, _, _, _)
levenshteinRows(a, b, row, prev) ==
    IF row > Len(b) THEN prev[Len(a) + 1]
    ELSE levenshteinRows(a, b, row + 1, levenshteinRow(a, b, row, prev, <<row>>))

\* mutant: the first row of the matrix left at 0
levenshteinDistance_ZeroFirstRow(a, b) ==
    levenshteinRows(a, b, 1, [j \in 1..(Len(a) + 1) |-> 0])

levenshteinDistance(a, b) ==
    levenshteinRows(a, b, 1, [j \in 1..(Len(a) + 1) |-> j - 1])

\* the maximal run of characters other than "/" that starts at position p
nonSlashRun(s, p) ==
    LET rest == slice(s, p, Len(s))
    IN  splitFirst(rest, "/")

\* url.match(/(?:https?:\/\/)?(?:www\.)?([^\/]+)/i): the capture group, which
\* is never empty, and <<>> when nothing matches.  The match starts at the first character that is not
\* "/"; the optional groups are taken greedily and given back when ([^\/]+)
\* could not match a character after them.
LitHttps == Str("https://")
LitHttp == Str("http://")
LitWww == Str("www.")

domainMatch(url) ==
    LET low == toLowerCase(url)
        p == CHOOSE q \in 1..(Len(url) + 1) :
                 /\ q <= Len(url) => url[q] # "/"
                 /\ \A r \in 1..(q - 1) : url[r] = "/"
        at(q, lit) == slice(low, q, q + Len(lit) - 1) = lit
        scheme == IF at(p, LitHttps) THEN 8
                  ELSE IF at(p, LitHttp) THEN 7 ELSE 0
        www(q) == IF at(q, LitWww) THEN 4 ELSE 0
        free(q) == q <= Len(url) /\ url[q] # "/"
        start == IF scheme > 0 /\ www(p + scheme) > 0 /\ free(p + scheme + 4)
                 THEN p + scheme + 4
                 ELSE IF scheme > 0 /\ free(p + scheme) THEN p + scheme
                 ELSE IF www(p) > 0 /\ free(p + 4) THEN p + 4
                 ELSE p
    IN  IF p > Len(url) THEN <<>> ELSE nonSlashRun(url, start)

\* similarity > 0.7 && similarity < 1 with similarity = 1 - distance / maxLen:
\* 1 - d/m > 0.7 exactly when 10 d < 3 m (at 10 d = 3 m the float 1 - 0.3 is
\* 0.7 and the test fails, as in exact arithmetic), and < 1 exactly when d > 0.
\* The distance is at least the difference of the lengths, so the matrix is
\* only built when that difference leaves the test open.
\* mutant: a similarity of exactly 1 accepted
similarTo_AllowsExact(domain, pattern) ==
    LET maxLen == Max(Len(domain), Len(pattern))
        distance == levenshteinDistance(domain, pattern)
    IN  10 * distance < 3 * maxLen

similarTo(domain, pattern) ==
    LET maxLen == Max(Len(domain), Len(pattern))
        minLen == Min(Len(domain), Len(pattern))
    IN  IF 10 * (maxLen - minLen) >= 3 * maxLen THEN FALSE
        ELSE LET distance == levenshteinDistance(domain, pattern)
             IN  10 * distance < 3 * maxLen /\ distance > 0

\* one iteration of the loop over TARGET_BRANDS: does this brand return its
\* name; dm is the capture of domainMatch, <<>> when there is no match
brandMatches(lowerUrl, dm, brand) ==
    LET officialDomain == brand.patterns[1] \o <<".", "c", "o", "m">>
    IN  \/ /\ \E k \in 1..Len(brand.patterns) : includes(lowerUrl, brand.patterns[k])
           /\ ~includes(lowerUrl, officialDomain)
        \/ /\ dm # <<>>
           /\ similarTo(toLowerCase(splitFirst(dm, ".")), brand.patterns[1])

\* the loop over TARGET_BRANDS from brand b on: the first brand that matches
RECURSIVE firstBrand(_, _, _)
firstBrand(lowerUrl, dm, b) ==
    IF b > Len(TARGET_BRANDS) THEN Null
    ELSE IF brandMatches(lowerUrl, dm, TARGET_BRANDS[b]) THEN TARGET_BRANDS[b].name
    ELSE firstBrand(lowerUrl, dm, b + 1)

\* detectBrandImpersonation(url)
detectBrandImpersonation(url) == firstBrand(toLowerCase(url), domainMatch(url), 1)

\* checkSuspiciousTLD(url)
checkSuspiciousTLD(url) ==
    LET lowerUrl == toLowerCase(url)
    IN  \E k \in 1..Len(SUSPICIOUS_TLDS) :
            \/ endsWith(lowerUrl, SUSPICIOUS_TLDS[k])
            \/ includes(lowerUrl, SUSPICIOUS_TLDS[k] \o <<"/">>)

\* isShortenerURL(url)
isShortenerURL(url) ==
    LET lowerUrl == toLowerCase(url)
    IN  \E k \in 1..Len(URL_SHORTENERS) : includes(lowerUrl, URL_SHORTENERS[k])

\* isPunycodeDomain(url)
isPunycodeDomain(url) == includes(toLowerCase(url), Str("xn--"))

\* parseInt of a string of decimal digits
RECURSIVE parseInt(_)
parseInt(digits) ==
    IF digits = <<>> THEN 0
    ELSE parseInt(slice(digits, 1, Len(digits) - 1)) * 10
         + digitValue(digits[Len(digits)])

\* the maximal run of digits that starts at position p
RECURSIVE digitRun(_, _)
digitRun(s, p) ==
    IF p > Len(s) \/ ~isDigit(s[p]) THEN <<>>
    ELSE <<s[p]>> \o digitRun(s, p + 1)

\* hasPortAnomalies(url): url.match(/:(\d+)/) is the first ":" that a digit follows
hasPortAnomalies(url) ==
    LET hit(k) == url[k] = ":" /\ k < Len(url) /\ isDigit(url[k + 1])
    IN  IF \E k \in 1..Len(url) : hit(k)
        THEN LET k == CHOOSE q \in 1..Len(url) : hit(q) /\ \A r \in 1..(q - 1) : ~hit(r)
                 port == parseInt(digitRun(url, k + 1))
                 normalPorts == {80, 443, 8080, 8443}
             IN  port \notin normalPorts
        ELSE FALSE

\* hasRedirectIndicators(url): the seven case-insensitive patterns
hasRedirectIndicators(url) ==
    LET low == toLowerCase(url)
        either(word, tail) ==
            \/ includes(low, Str(word) \o <<"=">> \o Str(tail))
            \/ includes(low, Str(word) \o <<"/">> \o Str(tail))
    IN  \/ either("redirect", "")
        \/ either("redir", "")
        \/ either("url", "http")
        \/ either("goto", "")
        \/ either("return", "http")
        \/ either("next", "http")
        \/ either("continue", "http")

\* /(.)\1{2,}/.test(url): some character three times in a row
hasRepeatedChars(url) ==
    \E k \in 1..(Len(url) - 2) : url[k] = url[k + 1] /\ url[k] = url[k + 2]

\* calculateTyposquattingScore(url)
calculateTyposquattingScore(url) ==
    LET lowerUrl == toLowerCase(url)
        first == splitFirst(lowerUrl, "/")
    IN  Min(100,
            (IF \E k \in 1..Len(first) : isDigit(first[k]) THEN 20 ELSE 0)
            + (IF detectBrandImpersonation(url) # Null THEN 40 ELSE 0)
            + (IF detectHomographs(url) THEN 30 ELSE 0)
            + (IF hasRepeatedChars(url) THEN 10 ELSE 0))

-----------------------------------------------------------------------------
(* The platform's URL class: new URL(input) with no base, as the URL Standard *)
(* defines it, for the inputs both extractors hand to it: strings over       *)
(* UrlAlphabet whose scheme, if any, is http or https.  Outside that domain   *)
(* the model gives no answer (Unsupported stops the evaluation).             *)

Unsupported == CHOOSE x \in {} : TRUE

Letters == {UpperCase[k] : k \in 1..26} \cup {LowerCase[k] : k \in 1..26}

UrlAlphabet ==
    Letters \cup Digits \cup {"-", ".", "_", "/", ":", "@", "%", " ", "?", "#", "=", "&"}

\* characters of a domain that the host parser leaves as they are (lowercased)
DomainChars == Letters \cup Digits \cup {"-", ".", "_", "=", "&"}

HexDigits == Digits \cup {"a", "b", "c", "d", "e", "f", "A", "B", "C", "D", "E", "F"}

Failure == [ok |-> FALSE]

\* leading and trailing spaces are removed before parsing
RECURSIVE trimSpaces(_)
trimSpaces(s) ==
    IF s = <<>> THEN s
    ELSE IF s[1] = " " THEN trimSpaces(Tail(s))
    ELSE IF s[Len(s)] = " " THEN trimSpaces(slice(s, 1, Len(s) - 1))
    ELSE s

RECURSIVE stripLeadingSlashes(_)
stripLeadingSlashes(s) ==
    IF s # <<>> /\ s[1] = "/" THEN stripLeadingSlashes(Tail(s)) ELSE s

\* the position of the first character of s that is in set, Len(s) + 1 if none
firstOf(s, set) ==
    IF \E k \in 1..Len(s) : s[k] \in set
    THEN CHOOSE k \in 1..Len(s) : s[k] \in set /\ \A j \in 1..(k - 1) : s[j] \notin set
    ELSE Len(s) + 1

\* the position of the last c in s, 0 if none
lastPos(s, c) ==
    IF \E k \in 1..Len(s) : s[k] = c
    THEN CHOOSE k \in 1..Len(s) : s[k] = c /\ \A j \in (k + 1)..Len(s) : s[j] # c
    ELSE 0

\* the decimal digits of n >= 0
RECURSIVE toDecimal(_)
toDecimal(n) ==
    IF n < 10 THEN <<Str("0123456789")[n + 1]>>
    ELSE toDecimal(n \div 10) \o <<Str("0123456789")[(n % 10) + 1]>>

RECURSIVE join(_, _)
join(pieces, sep) ==
    IF pieces = <<>> THEN <<>>
    ELSE IF Len(pieces) = 1 THEN pieces[1]
    ELSE pieces[1] \o sep \o join(Tail(pieces), sep)

\* percent-encoding of a component: of UrlAlphabet only the characters of
\* `encoded` are in the component's percent-encode set
RECURSIVE percentEncode(_, _)
percentEncode(s, encoded) ==
    IF s = <<>> THEN <<>>
    ELSE (IF s[1] \in encoded
          THEN CASE s[1] = " " -> Str("%20")
                 [] s[1] = ":" -> Str("%3A")
                 [] s[1] = "@" -> Str("%40")
                 [] s[1] = "=" -> Str("%3D")
          ELSE <<s[1]>>)
         \o percentEncode(Tail(s), encoded)

PathEncodeSet == {" "}
QueryEncodeSet == {" "}
FragmentEncodeSet == {" "}
UserinfoEncodeSet == {" ", ":", "@", "="}

\* a decimal number read digit by digit, held at `cap` once it exceeds it
RECURSIVE decimalUpTo(_, _)
decimalUpTo(digits, cap) ==
    IF digits = <<>> THEN 0
    ELSE LET high == decimalUpTo(slice(digits, 1, Len(digits) - 1), cap)
             n == high * 10 + digitValue(digits[Len(digits)])
         IN  IF high >= cap \/ n >= cap THEN cap ELSE n

allDigits(s) == \A k \in 1..Len(s) : isDigit(s[k])

\* split(host, ".") without the empty last piece a trailing dot leaves
dottedParts(host) ==
    LET parts == split(host, ".")
    IN  IF parts[Len(parts)] = <<>> THEN slice(parts, 1, Len(parts) - 1) ELSE parts

\* the ends-in-a-number checker of the host parser
lastIsNumber(last) ==
    IF last # <<>> /\ allDigits(last) THEN TRUE
    ELSE IF startsWith(toLowerCase(last), Str("0x")) THEN Unsupported
    ELSE FALSE

endsInNumber(host) ==
    LET parts == dottedParts(host)
    IN  IF parts = <<>> THEN FALSE ELSE lastIsNumber(parts[Len(parts)])

\* one part of an IPv4 address as a number: decimal without a leading zero
\* (a leading zero is octal: not in the model's domain)
ipv4Number(part) ==
    IF Len(part) > 9 \/ (Len(part) > 1 /\ part[1] = "0") THEN Unsupported
    ELSE parseInt(part)

\* the octets the last of n parts stands for
ipv4Tail(n, last) ==
    CASE n = 1 -> << last \div 16777216, (last \div 65536) % 256,
                     (last \div 256) % 256, last % 256 >>
      [] n = 2 -> << last \div 65536, (last \div 256) % 256, last % 256 >>
      [] n = 3 -> << last \div 256, last % 256 >>
      [] n = 4 -> << last >>

ipv4Limit(n) ==
    CASE n = 1 -> 999999999 [] n = 2 -> 16777215 [] n = 3 -> 65535 [] n = 4 -> 255

\* the IPv4 parser on the parts of the host; <<>> is failure (0x is
\* hexadecimal: not in the model's domain)
ipv4FromParts(parts, n) ==
    IF \E k \in 1..n : startsWith(toLowerCase(parts[k]), Str("0x")) THEN Unsupported
    ELSE IF n > 4 THEN <<>>
    ELSE IF \E k \in 1..n : parts[k] = <<>> \/ ~allDigits(parts[k]) THEN <<>>
    ELSE IF \E k \in 1..(n - 1) : ipv4Number(parts[k]) > 255 THEN <<>>
    ELSE IF ipv4Number(parts[n]) > ipv4Limit(n) THEN <<>>
    ELSE [k \in 1..(n - 1) |-> ipv4Number(parts[k])]
         \o ipv4Tail(n, ipv4Number(parts[n]))

\* the IPv4 parser: the four octets of host, <<>> on failure
ipv4Octets(host) ==
    LET parts == dottedParts(host)
    IN  ipv4FromParts(parts, Len(parts))

\* the IPv4 serializer
serializeIpv4(octets) ==
    IF octets = <<>> THEN <<>>
    ELSE join([k \in 1..4 |-> toDecimal(octets[k])], <<".">>)

\* the host parser on the lowercased host: a domain, or an IPv4 address
\* when the host ends in a number
domainOrIpv4(host) ==
    IF \E k \in 1..Len(host) : startsWith(slice(host, k, Len(host)), Str("xn--"))
                               /\ (k = 1 \/ host[k - 1] = ".")
    THEN Unsupported
    ELSE IF endsInNumber(host) THEN serializeIpv4(ipv4Octets(host))
    ELSE host

\* the host parser for a special scheme: the serialized host, <<>> on failure
\* (an empty host is a failure for a special scheme).
\* "%hh" decodes to a byte; the model covers the bytes 0x11, 0x1A, 0xA1, 0xAA
\* (hex digits 1 and a), none of which is allowed in a domain, so every "%"
\* in a host is a failure.  Non-ASCII hosts and xn-- labels (IDNA) are not in
\* the model's domain.
parseHost(raw) ==
    LET pct(k) == raw[k] = "%"
        decodable(k) == k + 2 <= Len(raw) /\ raw[k + 1] \in HexDigits
                        /\ raw[k + 2] \in HexDigits
        covered(k) == raw[k + 1] \in {"1", "a", "A"} /\ raw[k + 2] \in {"1", "a", "A"}
    IN  IF \E k \in 1..Len(raw) : pct(k)
        THEN IF \E k \in 1..Len(raw) : pct(k) /\ decodable(k) /\ ~covered(k)
             THEN Unsupported ELSE <<>>
        ELSE IF \E k \in 1..Len(raw) : raw[k] = " " THEN <<>>
        ELSE IF \E k \in 1..Len(raw) : raw[k] \notin DomainChars THEN Unsupported
        ELSE domainOrIpv4(toLowerCase(raw))

isSingleDot(seg) == toLowerCase(seg) \in {Str("."), Str("%2e")}
isDoubleDot(seg) ==
    toLowerCase(seg) \in {Str(".."), Str(".%2e"), Str("%2e."), Str("%2e%2e")}

\* the path state: the segments of the path, read left to right
RECURSIVE pathSegments(_, _, _)
pathSegments(segs, k, path) ==
    IF k > Len(segs) THEN path
    ELSE LET seg == segs[k]
             isLast == k = Len(segs)
             shortened == IF path = <<>> THEN path ELSE slice(path, 1, Len(path) - 1)
         IN  IF isDoubleDot(seg)
             THEN pathSegments(segs, k + 1,
                               IF isLast THEN Append(shortened, <<>>) ELSE shortened)
             ELSE IF isSingleDot(seg)
             THEN pathSegments(segs, k + 1,
                               IF isLast THEN Append(path, <<>>) ELSE path)
             ELSE pathSegments(segs, k + 1,
                               Append(path, percentEncode(seg, PathEncodeSet)))

\* the URL record of a special scheme from its serialized components
specialRecord(scheme, userinfo, host, port, pathname, queryAndFragment) ==
    IF host = <<>> THEN Failure
    ELSE [ok |-> TRUE,
          protocol |-> scheme \o <<":">>,
          hostname |-> host,
          port |-> substringFrom(port, 1),
          pathname |-> pathname,
          href |-> scheme \o Str("://") \o userinfo \o host \o port
                   \o pathname \o queryAndFragment]

\* the serialized credentials: "username:password@", empty when there are none
serializeUserinfo(username, password) ==
    IF username = <<>> /\ password = <<>> THEN <<>>
    ELSE username \o (IF password = <<>> THEN <<>> ELSE <<":">> \o password) \o <<"@">>

\* credentials: the username ends at the first ":"
userinfoOf(creds) ==
    serializeUserinfo(
        percentEncode(splitFirst(creds, ":"), UserinfoEncodeSet),
        percentEncode(slice(creds, firstPos(creds, ":") + 1, Len(creds)),
                      UserinfoEncodeSet))

\* the serialized port: empty for no port and for the scheme's default port
serializePort(scheme, portRaw, portValue) ==
    IF portRaw = <<>> \/ portValue = (IF scheme = Str("http") THEN 80 ELSE 443)
    THEN <<>>
    ELSE <<":">> \o toDecimal(portValue)

\* the path state on the path without its query
pathnameOf(pathStr) ==
    <<"/">> \o join(pathSegments(split(IF pathStr = <<>> THEN <<>> ELSE Tail(pathStr),
                                      "/"), 1, <<>>), <<"/">>)

\* the query state on what precedes the fragment
queryIn(beforeHash) ==
    LET qmark == firstPos(beforeHash, "?")
    IN  IF qmark > Len(beforeHash) THEN <<>>
        ELSE <<"?">> \o percentEncode(slice(beforeHash, qmark + 1, Len(beforeHash)),
                                      QueryEncodeSet)

\* the fragment state
fragmentOf(tail, hash) ==
    IF hash > Len(tail) THEN <<>>
    ELSE <<"#">> \o percentEncode(slice(tail, hash + 1, Len(tail)), FragmentEncodeSet)

\* the path ends at the first "?"
pathnameIn(beforeHash) ==
    pathnameOf(slice(beforeHash, 1, firstPos(beforeHash, "?") - 1))

\* host and port given, the path, query and fragment states on the tail
parseTail(scheme, userinfo, host, port, tail, hash) ==
    specialRecord(scheme, userinfo, host, port,
                  pathnameIn(slice(tail, 1, hash - 1)),
                  queryIn(slice(tail, 1, hash - 1)) \o fragmentOf(tail, hash))

\* the port state
parsePort(scheme, userinfo, hostRaw, portRaw, portValue, tail) ==
    IF ~allDigits(portRaw) \/ portValue > 65535 THEN Failure
    ELSE parseTail(scheme, userinfo, parseHost(hostRaw),
                   serializePort(scheme, portRaw, portValue),
                   tail, firstPos(tail, "#"))

\* the host state: the host ends at the first ":"
parseHostPort(scheme, userinfo, hostport, colon, tail) ==
    IF colon = 1 THEN Failure
    ELSE parsePort(scheme, userinfo, slice(hostport, 1, colon - 1),
                   slice(hostport, colon + 1, Len(hostport)),
                   decimalUpTo(slice(hostport, colon + 1, Len(hostport)), 65536),
                   tail)

\* the authority state: credentials are everything before the last "@"
parseAuthority(scheme, authority, at, tail) ==
    IF at = Len(authority) THEN Failure
    ELSE parseHostPort(scheme, userinfoOf(slice(authority, 1, at - 1)),
                       slice(authority, at + 1, Len(authority)),
                       firstPos(slice(authority, at + 1, Len(authority)), ":"),
                       tail)

\* the authority ends at the first "/", "?" or "#"
splitAuthority(scheme, afterSlashes, authEnd) ==
    parseAuthority(scheme, slice(afterSlashes, 1, authEnd - 1),
                   lastPos(slice(afterSlashes, 1, authEnd - 1), "@"),
                   slice(afterSlashes, authEnd, Len(afterSlashes)))

\* a URL with the special scheme `scheme`; rest is what follows "scheme:"
parseSpecial(scheme, rest) ==
    LET afterSlashes == stripLeadingSlashes(rest)
    IN  splitAuthority(scheme, afterSlashes, firstOf(afterSlashes, {"/", "?", "#"}))

SchemeChars == Letters \cup Digits \cup {"+", "-", "."}

\* the scheme state: s is the trimmed input, q the end of its scheme
schemeState(s, q, scheme) ==
    IF s = <<>> \/ ~isAlpha(s[1]) THEN Failure
    ELSE IF q > Len(s) \/ s[q] # ":" THEN Failure
    ELSE IF scheme \in {Str("http"), Str("https")}
         THEN parseSpecial(scheme, slice(s, q + 1, Len(s)))
    ELSE Unsupported

\* new URL(input): [ok |-> FALSE] when the constructor throws; the scheme
\* ends before the first character that no scheme may contain
parseURL(input) ==
    LET s == trimSpaces(input)
        q == firstOf(s, UrlAlphabet \ SchemeChars)
    IN  IF \E k \in 1..Len(input) : input[k] \notin UrlAlphabet THEN Unsupported
        ELSE schemeState(s, q, toLowerCase(slice(s, 1, q - 1)))

-----------------------------------------------------------------------------
(* featureExtraction.extractFeatures, Index.tsx 271-338 *)

SUSPICIOUS_KEYWORDS ==
    << Str("login"), Str("signin"), Str("verify"), Str("account"), Str("update"),
       Str("secure"), Str("banking"), Str("paypal"), Str("ebay"), Str("amazon"),
       Str("apple"), Str("microsoft"), Str("google"), Str("facebook"),
       Str("instagram"), Str("netflix"), Str("password"), Str("confirm"),
       Str("suspend"), Str("wallet"), Str("credit"), Str("debit") >>

\* one alternative of IP_REGEX: 25[0-5] | 2[0-4][0-9] | [01]?[0-9][0-9]?
isOctet(part) ==
    /\ Len(part) \in 1..3
    /\ allDigits(part)
    /\ Len(part) = 3 =>
          \/ part[1] \in {"0", "1"}
          \/ part[1] = "2" /\ part[2] \in {"0", "1", "2", "3", "4"}
          \/ part[1] = "2" /\ part[2] = "5" /\ part[3] \in {"0", "1", "2", "3", "4", "5"}

\* IP_REGEX.test(s): exactly four octets separated by "."
IP_REGEX_test(s) ==
    LET parts == split(s, ".")
    IN  Len(parts) = 4 /\ \A k \in 1..4 : isOctet(parts[k])

hasKeyword(text) ==
    \E k \in 1..Len(SUSPICIOUS_KEYWORDS) :
        includes(toLowerCase(text), SUSPICIOUS_KEYWORDS[k])

\* the string handed to new URL: url.startsWith('http') ? url : `https://${url}`
urlWithProtocol(url) ==
    IF startsWith(url, Str("http")) THEN url ELSE Str("https://") \o url

\* a catch branch that leaves pathLength out
extractFeaturesFallback_NoPathLength(url) ==
    [urlLength |-> Len(url),
     hasAtSymbol |-> includes(url, <<"@">>),
     hasDoubleSlash |-> /\ includes(url, Str("//"))
                        /\ indexOf(url, Str("//")) # indexOf(url, Str("://")) - 1,
     hasDash |-> includes(url, <<"-">>),
     hasIPAddress |-> IP_REGEX_test(splitFirst(url, "/")),
     isHTTPS |-> startsWith(toLowerCase(url), Str("https")),
     subdomainCount |-> 0,
     hasMultipleSubdomains |-> FALSE,
     hasSuspiciousKeywords |-> hasKeyword(url),
     domainLength |-> Len(url),
     hasEncodedChars |-> includes(url, <<"%">>),
     hasTooManyDots |-> countChar(url, ".") > 4]

\* the catch branch of extractFeatures: the raw string analysed
extractFeaturesFallback(url) ==
    [urlLength |-> Len(url),
     hasAtSymbol |-> includes(url, <<"@">>),
     hasDoubleSlash |-> /\ includes(url, Str("//"))
                        /\ indexOf(url, Str("//")) # indexOf(url, Str("://")) - 1,
     hasDash |-> includes(url, <<"-">>),
     hasIPAddress |-> IP_REGEX_test(splitFirst(url, "/")),
     isHTTPS |-> startsWith(toLowerCase(url), Str("https")),
     subdomainCount |-> 0,
     hasMultipleSubdomains |-> FALSE,
     hasSuspiciousKeywords |-> hasKeyword(url),
     domainLength |-> Len(url),
     pathLength |-> 0,
     hasEncodedChars |-> includes(url, <<"%">>),
     hasTooManyDots |-> countChar(url, ".") > 4]

\* subdomains counted as every label but the last
extractFeaturesParsed_CountsAllButTld(parsedUrl) ==
    LET hostname == parsedUrl.hostname
        fullUrl == parsedUrl.href
        subdomainCount == Max(0, Len(split(hostname, ".")) - 1)
        afterProtocol == substringFrom(fullUrl, indexOf(fullUrl, Str("://")) + 3)
    IN  [urlLength |-> Len(fullUrl),
         hasAtSymbol |-> includes(fullUrl, <<"@">>),
         hasDoubleSlash |-> includes(afterProtocol, Str("//")),
         hasDash |-> includes(hostname, <<"-">>),
         hasIPAddress |-> IP_REGEX_test(hostname),
         isHTTPS |-> parsedUrl.protocol = Str("https:"),
         subdomainCount |-> subdomainCount,
         hasMultipleSubdomains |-> subdomainCount > 2,
         hasSuspiciousKeywords |-> hasKeyword(fullUrl),
         domainLength |-> Len(hostname),
         pathLength |-> Len(parsedUrl.pathname),
         hasEncodedChars |-> includes(fullUrl, <<"%">>),
         hasTooManyDots |-> countChar(hostname, ".") > 4]

\* extractFeatures after a successful parse
extractFeaturesParsed(parsedUrl) ==
    LET hostname == parsedUrl.hostname
        path == parsedUrl.pathname
        fullUrl == parsedUrl.href
        domainParts == split(hostname, ".")
        subdomainCount == Max(0, Len(domainParts) - 2)
        afterProtocol == substringFrom(fullUrl, indexOf(fullUrl, Str("://")) + 3)
    IN  [urlLength |-> Len(fullUrl),
         hasAtSymbol |-> includes(fullUrl, <<"@">>),
         hasDoubleSlash |-> includes(afterProtocol, Str("//")),
         hasDash |-> includes(hostname, <<"-">>),
         hasIPAddress |-> IP_REGEX_test(hostname),
         isHTTPS |-> parsedUrl.protocol = Str("https:"),
         subdomainCount |-> subdomainCount,
         hasMultipleSubdomains |-> subdomainCount > 2,
         hasSuspiciousKeywords |-> hasKeyword(fullUrl),
         domainLength |-> Len(hostname),
         pathLength |-> Len(path),
         hasEncodedChars |-> includes(fullUrl, <<"%">>),
         hasTooManyDots |-> countChar(hostname, ".") > 4]

\* the try/catch of extractFeatures around new URL
extractFeaturesFrom(url, parsedUrl) ==
    IF parsedUrl.ok THEN extractFeaturesParsed(parsedUrl)
    ELSE extractFeaturesFallback(url)

extractFeatures(url) == extractFeaturesFrom(url, parseURL(urlWithProtocol(url)))

-----------------------------------------------------------------------------
(* advancedDetection.extractAdvancedFeatures, part_000 242-267 *)

\* the hostname of the try/catch: parsedUrl.hostname, or url.split('/')[0]
hostnameOr(url, parsedUrl) ==
    IF parsedUrl.ok THEN parsedUrl.hostname ELSE splitFirst(url, "/")

advancedHostname(url) == hostnameOr(url, parseURL(urlWithProtocol(url)))

\* the record extractAdvancedFeatures returns, hostname given
advancedFeaturesOf(url, hostname) ==
    [entropyScore |-> calculateEntropy(hostname),
     hasHomographChars |-> detectHomographs(hostname),
     typosquattingScore |-> calculateTyposquattingScore(url),
     suspiciousTLD |-> checkSuspiciousTLD(url),
     domainAge |-> "unknown",
     redirectRisk |-> hasRedirectIndicators(url),
     portAnomalies |-> hasPortAnomalies(url),
     punycodeDomain |-> isPunycodeDomain(url),
     brandImpersonation |-> detectBrandImpersonation(url),
     shortenedURL |-> isShortenerURL(url)]

extractAdvancedFeatures(url) == advancedFeaturesOf(url, advancedHostname(url))

-----------------------------------------------------------------------------
(* SpecRules: one call of a pure function of the engine on a drawn input *)

MaxUrlLength == 80
MaxSubdomainCount == 4
MaxEntropy == 500

\* TARGET_BRANDS.map(b => b.name)
BrandNames ==
    {"PayPal", "Amazon", "Apple", "Microsoft", "Google", "Netflix", "Facebook",
     "Instagram", "Twitter", "LinkedIn", "Chase", "Bank of America", "Wells Fargo"}

\* lengths on both sides of the thresholds 54 and 75
UrlLengths == {0, 54, 55, 75, 76, MaxUrlLength}

\* entropies (hundredths) on both sides of the thresholds 3 and 4
EntropyScores == {0, 300, 301, 400, 401, MaxEntropy}

\* typosquatting scores on both sides of the thresholds 20 and 50
TyposquattingScores == {0, 20, 30, 50, 60, 100}

\* URLFeatures as extractFeatures builds them: hasMultipleSubdomains is
\* subdomainCount > 2 (false with subdomainCount 0 on the fallback path).
\* domainLength, pathLength and hasTooManyDots are not read by analyzeFeatures.
BasicFeatureSpace ==
    { [urlLength |-> len, hasAtSymbol |-> at, hasDoubleSlash |-> ds,
       hasDash |-> dash, hasIPAddress |-> ip, isHTTPS |-> https,
       subdomainCount |-> sub, hasMultipleSubdomains |-> (sub > 2),
       hasSuspiciousKeywords |-> kw, domainLength |-> len, pathLength |-> 0,
       hasEncodedChars |-> enc, hasTooManyDots |-> dots] :
      len \in UrlLengths, at \in BOOLEAN, ds \in BOOLEAN, dash \in BOOLEAN,
      ip \in BOOLEAN, https \in BOOLEAN, sub \in 0..MaxSubdomainCount,
      kw \in BOOLEAN, enc \in BOOLEAN, dots \in BOOLEAN }

AdvancedFeatureSpace ==
    { [entropyScore |-> e, hasHomographChars |-> hom, typosquattingScore |-> typo,
       suspiciousTLD |-> tld, domainAge |-> "unknown", redirectRisk |-> redir,
       portAnomalies |-> port, punycodeDomain |-> puny,
       brandImpersonation |-> brand, shortenedURL |-> short] :
      e \in EntropyScores, hom \in BOOLEAN, typo \in TyposquattingScores,
      tld \in BOOLEAN, redir \in BOOLEAN, port \in BOOLEAN, puny \in BOOLEAN,
      brand \in BrandNames \cup {Null}, short \in BOOLEAN }

\* the scores handed to the combiner: integers clamped to 0..100
ScorePairs == [riskScore : 0..100, advancedScore : 0..100]

\* the official domain of a brand: `${brand.patterns[0]}.com`
officialDomainOf(brand) == brand.patterns[1] \o Str(".com")

\* URLs whose host is the official domain of a brand: with and without a
\* scheme and "www.", with and without a path
OfficialUrls ==
    { scheme \o www \o officialDomainOf(TARGET_BRANDS[b]) \o path :
        scheme \in {<<>>, Str("http://"), Str("https://")},
        www \in {<<>>, Str("www.")},
        path \in {<<>>, Str("/a")},
        b \in 1..Len(TARGET_BRANDS) }

\* the patterns of the table as written, each with the brand it is listed for
ListedPatterns ==
    UNION { { TARGET_BRANDS[b].patterns[k] : k \in 1..Len(TARGET_BRANDS[b].patterns) } :
              b \in 1..Len(TARGET_BRANDS) }

\* URLs that contain a listed pattern: as the first label of the host, in the
\* path of another site, and as the name of a .com site
VariantUrls ==
    { before \o pattern \o after :
        pattern \in ListedPatterns,
        before \in {<<>>, Str("http://a.tk/"), Str("https://")},
        after \in {<<>>, Str(".tk"), Str(".com/")} }

\* near misses of the canonical names, and names that are no brand's
OtherBrandUrls ==
    { Str("gooogle.com"), Str("http://amazom.co/x"), Str("https://www.netflx.com"),
      Str("chase-a.tk"), Str("a.tk"), Str("http://1.1.1.1/login@") }

\* what detectBrandImpersonation is called with
BrandUrls == OfficialUrls \cup VariantUrls \cup OtherBrandUrls

PageIdle ==
    /\ reqUrl = <<>> /\ pc = "off" /\ isAnalyzing = FALSE /\ result = Null
    /\ activeTab = "single" /\ history = <<>> /\ locals = Null

BatchIdle ==
    /\ urls = <<>> /\ urlList = <<>> /\ bpc = "off" /\ idx = 0 /\ batchResults = <<>>
    /\ results = <<>> /\ progress = <<0, 1>> /\ batchIsAnalyzing = FALSE /\ csv = <<>>
    /\ batchOps = 0

RulesIdle == rpc = "off" /\ fn = "none" /\ arg = Null /\ ret = Null

\* localStorage.getItem(STORAGE_KEY): no item (null), or a saved list
NoItem == [present |-> FALSE, items |-> <<>>]
Stored(list) == [present |-> TRUE, items |-> list]

ViewIdle ==
    viewLoaded = FALSE /\ viewHistory = <<>> /\ removed = {} /\ viewSaveDue = FALSE

HookIdle ==
    /\ isLoaded = FALSE /\ storage = NoItem /\ nextId = 1 /\ hops = 0
    /\ saveDue = FALSE /\ queue = <<>> /\ baseHistory = <<>>
    /\ ViewIdle
    /\ pending = <<>>

\* the strings of at most n characters of an alphabet
RECURSIVE StringsUpTo(_, _)
StringsUpTo(alphabet, n) ==
    IF n = 0 THEN {<<>>}
    ELSE LET shorter == StringsUpTo(alphabet, n - 1)
         IN  shorter \cup {Append(w, c) : w \in shorter, c \in alphabet}

\* the words levenshteinDistance is called with: every word of at most
\* MaxWordLen letters of WordAlphabet, and the pair of the spec's scenario
MaxWordLen == 3

WordAlphabet == {"a", "b", "c"}

Words(n) == StringsUpTo(WordAlphabet, n)

WordPairs ==
    {[a |-> x, b |-> y] : x \in Words(MaxWordLen), y \in Words(MaxWordLen)}
    \cup {[a |-> Str("kitten"), b |-> Str("sitting")],
          [a |-> Str("sitting"), b |-> Str("kitten")]}

\* an optional prop: <<>> when the caller leaves it out, <<x>> when it is x
\* AnalysisResult 31: combinedScore ?? riskScore
displayScoreOf(combinedScore, riskScore) ==
    IF combinedScore = <<>> THEN riskScore ELSE combinedScore[1]

\* mutant: the first threshold inclusive
displayClassificationOf_InclusiveThreshold(combinedScore, classification) ==
    IF combinedScore # <<>> /\ combinedScore[1] # 0
    THEN IF combinedScore[1] <= 25 THEN "legitimate"
         ELSE IF combinedScore[1] < 50 THEN "suspicious"
         ELSE "phishing"
    ELSE classification

\* AnalysisResult 32-34: the inline steps when combinedScore is truthy, the
\* classification prop when it is 0 or undefined
displayClassificationOf(combinedScore, classification) ==
    IF combinedScore # <<>> /\ combinedScore[1] # 0
    THEN IF combinedScore[1] < 25 THEN "legitimate"
         ELSE IF combinedScore[1] < 50 THEN "suspicious"
         ELSE "phishing"
    ELSE classification

\* the props Index renders AnalysisResult with: those of the result set by
\* handleAnalyze (Index 211-219), and those of the page without the advanced
\* layer (Index 62-67), which passes no combinedScore
ResultProps ==
    {[classification |->
          finalClassificationOf(combinedScoreOf(p.riskScore, p.advancedScore)),
      riskScore |-> p.riskScore,
      combinedScore |-> <<combinedScoreOf(p.riskScore, p.advancedScore)>>] :
        p \in ScorePairs}
    \cup {[classification |-> classifyURL(riskScore),
           riskScore |-> riskScore,
           combinedScore |-> <<>>] : riskScore \in 0..100}

\* the strings calculateEntropy is called with: the words of at most
\* MaxWordLen + 1 letters, and the strings of the spec's scenarios
EntropyInputs ==
    Words(MaxWordLen + 1)
    \cup {Str("aaaaaaaa"), Str("abababab"), Str("abcdabcd"), Str("google.com"),
          Str("abcdefgh")}

InitRules ==
    /\ \/ fn = "analyzeFeatures" /\ arg \in BasicFeatureSpace
       \/ fn = "analyzeAdvancedFeatures" /\ arg \in AdvancedFeatureSpace
       \/ fn = "classifyURL" /\ arg \in 0..100
       \/ fn = "combine" /\ arg \in ScorePairs
       \/ fn = "detectBrandImpersonation" /\ arg \in BrandUrls
       \/ fn = "levenshteinDistance" /\ arg \in WordPairs
       \/ fn = "calculateEntropy" /\ arg \in EntropyInputs
       \/ fn = "AnalysisResult" /\ arg \in ResultProps
    /\ rpc = "call"
    /\ ret = Null
    /\ PageIdle
    /\ BatchIdle
    /\ HookIdle

\* detectBrandImpersonation 144: levenshteinDistance(domain, pattern)
CallLevenshtein ==
    /\ rpc = "call" /\ fn = "levenshteinDistance"
    /\ rpc' = "return"
    /\ ret' = [distance |-> levenshteinDistance(arg.a, arg.b)]
    /\ UNCHANGED <<fn, arg, pageVars, batchVars, hookVars, viewVars, overlapVars>>

\* extractAdvancedFeatures 254: entropyScore: calculateEntropy(hostname)
CallEntropy ==
    /\ rpc = "call" /\ fn = "calculateEntropy"
    /\ rpc' = "return"
    /\ ret' = [entropyScore |-> calculateEntropy(arg)]
    /\ UNCHANGED <<fn, arg, pageVars, batchVars, hookVars, viewVars, overlapVars>>

\* AnalysisResult 31-34: the score and the label the component shows
RenderAnalysisResult ==
    /\ rpc = "call" /\ fn = "AnalysisResult"
    /\ rpc' = "return"
    /\ ret' = [displayScore |-> displayScoreOf(arg.combinedScore, arg.riskScore),
               displayClassification |->
                   displayClassificationOf(arg.combinedScore, arg.classification)]
    /\ UNCHANGED <<fn, arg, pageVars, batchVars, hookVars, viewVars, overlapVars>>

\* Index.handleAnalyze 130-133: the basic layer
CallBasic ==
    /\ rpc = "call" /\ fn = "analyzeFeatures"
    /\ rpc' = "return"
    /\ LET analysis == analyzeFeatures(arg)
           riskScore == calculateRiskScore(analysis)
       IN  ret' = [analysis |-> analysis, riskScore |-> riskScore,
                   classification |-> classifyURL(riskScore)]
    /\ UNCHANGED <<fn, arg, pageVars, batchVars, hookVars, viewVars, overlapVars>>

\* Index.handleAnalyze 136-138: the advanced layer
CallAdvanced ==
    /\ rpc = "call" /\ fn = "analyzeAdvancedFeatures"
    /\ rpc' = "return"
    /\ LET advancedAnalysis == analyzeAdvancedFeatures(arg)
       IN  ret' = [advancedAnalysis |-> advancedAnalysis,
                   advancedScore |-> calculateAdvancedRiskScore(advancedAnalysis)]
    /\ UNCHANGED <<fn, arg, pageVars, batchVars, hookVars, viewVars, overlapVars>>

CallClassify ==
    /\ rpc = "call" /\ fn = "classifyURL"
    /\ rpc' = "return"
    /\ ret' = [classification |-> classifyURL(arg)]
    /\ UNCHANGED <<fn, arg, pageVars, batchVars, hookVars, viewVars, overlapVars>>

\* Index.handleAnalyze 141-144 and BatchAnalysis.handleAnalyze 58-62
CallCombine ==
    /\ rpc = "call" /\ fn = "combine"
    /\ rpc' = "return"
    /\ LET combinedScore == combinedScoreOf(arg.riskScore, arg.advancedScore)
           batchScore == batchCombinedScoreOf(arg.riskScore, arg.advancedScore)
       IN  ret' = [combinedScore |-> combinedScore,
                   classification |-> finalClassificationOf(combinedScore),
                   batchCombinedScore |-> batchScore,
                   batchClassification |-> batchClassificationOf(batchScore)]
    /\ UNCHANGED <<fn, arg, pageVars, batchVars, hookVars, viewVars, overlapVars>>

\* extractAdvancedFeatures 263: brandImpersonation: detectBrandImpersonation(url)
CallDetectBrand ==
    /\ rpc = "call" /\ fn = "detectBrandImpersonation"
    /\ rpc' = "return"
    /\ ret' = [brandImpersonation |-> detectBrandImpersonation(arg)]
    /\ UNCHANGED <<fn, arg, pageVars, batchVars, hookVars, viewVars, overlapVars>>

NextRules ==
    \/ CallBasic \/ CallAdvanced \/ CallClassify \/ CallCombine
    \/ CallDetectBrand \/ CallLevenshtein \/ CallEntropy
    \/ RenderAnalysisResult

SpecRules == InitRules /\ [][NextRules]_vars

-----------------------------------------------------------------------------
(* Spec: the single-URL page, Index.handleAnalyze, called once with a URL *)

MaxBodyLen == 2

\* URLInput.exampleUrls
exampleUrls ==
    << Str("https://www.google.com"),
       Str("http://192.168.1.1/login/verify-account"),
       Str("https://secure-login-paypal.suspicious-domain.com/account") >>

\* further URLs of the scenarios
ScenarioUrls ==
    { Str("https://bit.ly/3xYz"),
      Str("www.google.com"),
      Str("HTTPS://WWW.GOOGLE.COM/"),
      Str("http://paypa1.com:8081/redirect=http://a.tk/%20"),
      Str("https://bit.ly/redirect=3xYz"),
      Str("httpbin.org/a b"),
      Str("http://1.1.1.1.1/"),
      Str("https://a:b@/"),
      Str("a.b.c.d e"),
      Str("http://a.tk/b:1"),
      Str("http://u:80@a.tk:81/"),
      Str("http://login.secure.account.update.example.com//a@b/verify?next=http://x.xyz") }

\* the characters of the generated URLs: a letter, a digit, the separators of
\* a URL, and a space (which no host may contain)
BodyAlphabet == {"a", "1", ".", "/", ":", "-", "@", "%", " "}

SchemePrefixes == {<<>>, Str("http://"), Str("https://")}

GeneratedUrls ==
    {p \o b : p \in SchemePrefixes, b \in StringsUpTo(BodyAlphabet, MaxBodyLen)}

\* String.prototype.trim, for the white space of the model: " " and "\n"
WhiteSpace == {" ", "\n"}

RECURSIVE trim(_)
trim(s) ==
    IF s = <<>> THEN s
    ELSE IF s[1] \in WhiteSpace THEN trim(Tail(s))
    ELSE IF s[Len(s)] \in WhiteSpace THEN trim(slice(s, 1, Len(s) - 1))
    ELSE s

\* the strings handleAnalyze is called with: URLInput.handleSubmit passes
\* url.trim() when it is not empty, the example buttons pass exampleUrls
Urls ==
    {exampleUrls[k] : k \in 1..Len(exampleUrls)}
    \cup {trim(u) : u \in {v \in ScenarioUrls \cup GeneratedUrls : trim(v) # <<>>}}

MAX_HISTORY == 50

\* an updater that keeps the oldest MAX_HISTORY items instead of the newest
addScan_KeepsOldest(prev, id, url, classification, riskScore) ==
    LET newItem == [id |-> id, url |-> url, classification |-> classification,
                    riskScore |-> riskScore]
        updated == <<newItem>> \o prev
    IN  slice(updated, Max(1, Len(updated) - MAX_HISTORY + 1), Len(updated))

\* useScanHistory.addScan: the updater of setHistory; id stands for the item's
\* id and timestamp
addScan(prev, id, url, classification, riskScore) ==
    LET newItem == [id |-> id, url |-> url, classification |-> classification,
                    riskScore |-> riskScore]
        updated == <<newItem>> \o prev
    IN  slice(updated, 1, Min(Len(updated), MAX_HISTORY))

\* Index.handleAnalyze 131-157: the AnalysisState from the two feature records
analysisStateFrom(url, features, advancedFeatures) ==
    LET analysis == analyzeFeatures(features)
        riskScore == calculateRiskScore(analysis)
        advancedAnalysis == analyzeAdvancedFeatures(advancedFeatures)
        advancedScore == calculateAdvancedRiskScore(advancedAnalysis)
        combinedScore == combinedScoreOf(riskScore, advancedScore)
        finalClassification == finalClassificationOf(combinedScore)
    IN  [url |-> url,
         classification |-> finalClassification,
         riskScore |-> riskScore,
         analysis |-> analysis,
         advancedAnalysis |-> advancedAnalysis,
         advancedScore |-> advancedScore,
         combinedScore |-> combinedScore]

\* Index.handleAnalyze 130-157: everything computed after the delay
analysisStateOf(url) ==
    analysisStateFrom(url, extractFeatures(url), extractAdvancedFeatures(url))

\* the page as mounted: nothing analysed yet
Init ==
    /\ reqUrl = <<>>
    /\ pc = "idle"
    /\ isAnalyzing = FALSE
    /\ result = Null
    /\ activeTab = "single"
    /\ history = <<>>
    /\ locals = Null
    /\ RulesIdle
    /\ BatchIdle
    /\ HookIdle

\* handleAnalyze(url) up to the await of the simulated delay
HandleAnalyzeStart ==
    /\ pc = "idle"
    /\ \E url \in Urls : reqUrl' = url
    /\ isAnalyzing' = TRUE
    /\ result' = Null
    /\ activeTab' = "single"
    /\ pc' = "delay"
    /\ UNCHANGED <<history, locals, ruleVars, batchVars, hookVars, viewVars, overlapVars>>

\* Index.handleAnalyze 130-157: the locals, addScan and setResult
finishWith(features, advancedFeatures, state) ==
    /\ locals' = [features |-> features,
                  advancedFeatures |-> advancedFeatures,
                  classification |-> classifyURL(state.riskScore)]
    /\ history' = addScan(history, Len(history) + 1, reqUrl,
                          state.classification, state.combinedScore)
    /\ result' = state

\* handleAnalyze after the delay: both layers, the combiner, addScan, setResult
HandleAnalyzeFinish ==
    /\ pc = "delay"
    /\ LET features == extractFeatures(reqUrl)
           advancedFeatures == extractAdvancedFeatures(reqUrl)
       IN  finishWith(features, advancedFeatures,
                      analysisStateFrom(reqUrl, features, advancedFeatures))
    /\ isAnalyzing' = FALSE
    /\ pc' = "shown"
    /\ UNCHANGED <<reqUrl, activeTab, ruleVars, batchVars, hookVars, viewVars, overlapVars>>

Next == HandleAnalyzeStart \/ HandleAnalyzeFinish

Spec == Init /\ [][Next]_vars

-----------------------------------------------------------------------------
(* SpecOverlap: calls of Index.handleAnalyze that overlap.  The Analyze
   button is disabled while isAnalyzing, the example buttons of URLInput, the
   rows of the batch results and the rows of the history are not *)

\* the calls of handleAnalyze of a run
MaxRequests == 3

\* the page as mounted
InitOverlap ==
    /\ reqUrl = <<>>
    /\ pc = "idle"
    /\ isAnalyzing = FALSE
    /\ result = Null
    /\ activeTab = "single"
    /\ history = <<>>
    /\ locals = Null
    /\ RulesIdle
    /\ BatchIdle
    /\ HookIdle

\* handleAnalyze(url) up to the await, called from an example button: the
\* call joins the calls inside their delay
OverlapAnalyzeStart ==
    /\ hops < MaxRequests
    /\ \E k \in 1..Len(exampleUrls) :
          /\ reqUrl' = exampleUrls[k]
          /\ pending' = Append(pending, exampleUrls[k])
    /\ isAnalyzing' = TRUE
    /\ result' = Null
    /\ activeTab' = "single"
    /\ pc' = "delay"
    /\ hops' = hops + 1
    /\ UNCHANGED <<history, locals, isLoaded, storage, nextId, saveDue, queue,
                   baseHistory, ruleVars, batchVars, viewVars>>

\* Index.handleAnalyze 130-157 of the call with this url
overlapFinishWith(url, features, advancedFeatures, state) ==
    /\ locals' = [features |-> features,
                  advancedFeatures |-> advancedFeatures,
                  classification |-> classifyURL(state.riskScore)]
    /\ history' = addScan(history, Len(history) + 1, url,
                          state.classification, state.combinedScore)
    /\ result' = state

\* handleAnalyze after the delay: the delays are equal, so the timer of the
\* oldest call fires first
OverlapAnalyzeFinish ==
    /\ pending # <<>>
    /\ LET features == extractFeatures(Head(pending))
           advancedFeatures == extractAdvancedFeatures(Head(pending))
       IN  overlapFinishWith(Head(pending), features, advancedFeatures,
                             analysisStateFrom(Head(pending), features,
                                               advancedFeatures))
    /\ isAnalyzing' = FALSE
    /\ pending' = Tail(pending)
    /\ pc' = (IF Tail(pending) = <<>> THEN "shown" ELSE "delay")
    /\ UNCHANGED <<reqUrl, activeTab, ruleVars, batchVars, hookVars, viewVars>>

NextOverlap == OverlapAnalyzeFinish \/ OverlapAnalyzeStart

SpecOverlap == InitOverlap /\ [][NextOverlap]_vars

-----------------------------------------------------------------------------
(* SpecBatch: the batch tab, BatchAnalysis.handleAnalyze, on a typed text *)

MaxBatch == 2

\* the separators of parseUrls: /[\n,;]+/
BatchSeparatorChars == {"\n", ",", ";"}

\* text.split(/[\n,;]+/): the pieces between the runs of separators; a text
\* that starts or ends with a separator has an empty first or last piece
RECURSIVE splitRuns(_, _, _)
splitRuns(text, k, piece) ==
    IF k > Len(text) THEN <<piece>>
    ELSE IF text[k] \in BatchSeparatorChars
         THEN IF k > 1 /\ text[k - 1] \in BatchSeparatorChars
              THEN splitRuns(text, k + 1, piece)
              ELSE <<piece>> \o splitRuns(text, k + 1, <<>>)
    ELSE splitRuns(text, k + 1, Append(piece, text[k]))

\* Array.prototype.filter(url => url.length > 0)
RECURSIVE nonEmpty(_)
nonEmpty(pieces) ==
    IF pieces = <<>> THEN <<>>
    ELSE (IF pieces[1] = <<>> THEN <<>> ELSE <<pieces[1]>>) \o nonEmpty(Tail(pieces))

\* BatchAnalysis.parseUrls
parseUrls(text) ==
    LET pieces == splitRuns(text, 1, <<>>)
    IN  nonEmpty([k \in 1..Len(pieces) |-> trim(pieces[k])])

\* BatchAnalysis.handleAnalyze 58-70: the BatchResult from the two scores
batchResultFrom(url, basicScore, advancedScore) ==
    LET combinedScore == batchCombinedScoreOf(basicScore, advancedScore)
        classification == batchClassificationOf(combinedScore)
    IN  [url |-> url,
         classification |-> classification,
         riskScore |-> basicScore,
         advancedScore |-> advancedScore,
         combinedScore |-> combinedScore]

\* one iteration of the loop: the BatchResult pushed for url
batchResultOf(url) ==
    LET features == extractFeatures(url)
        analysis == analyzeFeatures(features)
        advancedFeatures == extractAdvancedFeatures(url)
        advancedAnalysis == analyzeAdvancedFeatures(advancedFeatures)
    IN  batchResultFrom(url, calculateRiskScore(analysis),
                        calculateAdvancedRiskScore(advancedAnalysis))

\* Number.prototype.toString for the scores, String(classification).toUpperCase()
csvHeader == Str("URL,Classification,Basic Score,Advanced Score,Combined Score")

\* one row of the file: the url in quotes, the class in capitals, the scores
csvRow(r) ==
    join(<< <<"\"">> \o r.url \o <<"\"">>,
            toUpperCase(Str(r.classification)),
            toDecimal(r.riskScore),
            toDecimal(r.advancedScore),
            toDecimal(r.combinedScore) >>, <<",">>)

\* a file without the header line
exportResults_NoHeader(rs) ==
    join([k \in 1..Len(rs) |-> csvRow(rs[k])], <<"\n">>)

\* BatchAnalysis.exportResults: the text of the file
exportResults(rs) ==
    join(<<csvHeader>> \o [k \in 1..Len(rs) |-> csvRow(rs[k])], <<"\n">>)

\* what a user types for one URL: with and without a scheme, padded with
\* spaces, and nothing at all
BatchEntries ==
    { Str("a.tk"), Str(" bit.ly/x "), Str("http://1.1.1.1/login@"),
      Str("paypa1.com:81"), <<>> }

\* the separators a user puts between two entries
BatchSeparators == { <<"\n">>, <<",">>, <<";", "\n">> }

RECURSIVE EntryListsUpTo(_)
EntryListsUpTo(n) ==
    IF n = 0 THEN {<<>>}
    ELSE LET shorter == EntryListsUpTo(n - 1)
         IN  shorter \cup {Append(w, e) : w \in shorter, e \in BatchEntries}

\* the texts of the textarea: up to MaxBatch entries with one separator
BatchTexts ==
    {join(entries, sep) : entries \in EntryListsUpTo(MaxBatch), sep \in BatchSeparators}

\* the edits of the text and the clicks on the buttons and rows of a run
MaxBatchOps == 3

\* the values onChange delivers: the empty field is typed into; a text is
\* replaced or gets one more line
EditedTexts(text) ==
    IF text = <<>> THEN BatchTexts \ {<<>>}
    ELSE {Str("x.com"), text \o <<"\n">> \o Str("x.com")} \ {text}

\* Index as mounted: the Single URL tab is shown, BatchAnalysis is not mounted
InitBatch ==
    /\ reqUrl = <<>>
    /\ pc = "idle"
    /\ isAnalyzing = FALSE
    /\ result = Null
    /\ activeTab = "single"
    /\ history = <<>>
    /\ locals = Null
    /\ BatchIdle
    /\ RulesIdle
    /\ HookIdle

\* the Batch tab is selected: BatchAnalysis mounts with its initial state
SelectBatchTab ==
    /\ activeTab # "batch"
    /\ activeTab' = "batch"
    /\ bpc' = "idle"
    /\ UNCHANGED <<urls, urlList, idx, batchResults, results, progress,
                   batchIsAnalyzing, csv, batchOps, reqUrl, pc, isAnalyzing, result,
                   history, locals, ruleVars, hookVars, viewVars, overlapVars>>

\* BatchAnalysis unmounts: its state is gone, and what a run in flight still
\* sets is set on no component
unmountBatch ==
    /\ urls' = <<>>
    /\ urlList' = <<>>
    /\ bpc' = "off"
    /\ idx' = 0
    /\ batchResults' = <<>>
    /\ results' = <<>>
    /\ progress' = <<0, 1>>
    /\ batchIsAnalyzing' = FALSE

\* another tab is selected: TabsContent shows the active tab only
LeaveBatchTab ==
    /\ activeTab = "batch"
    /\ \E tab \in {"single", "history", "learn"} : activeTab' = tab
    /\ unmountBatch
    /\ UNCHANGED <<csv, batchOps, reqUrl, pc, isAnalyzing, result, history, locals,
                   ruleVars, hookVars, viewVars, overlapVars>>

\* a row of the results is clicked: onSingleAnalysis(result.url) is
\* Index.handleAnalyze up to its await, whose setActiveTab('single') unmounts
\* the tab
BatchRowClick ==
    /\ bpc # "off"
    /\ Len(results) > 0
    /\ batchOps < MaxBatchOps
    /\ \E k \in 1..Len(results) :
          /\ reqUrl' = results[k].url
          /\ pending' = Append(pending, results[k].url)
    /\ isAnalyzing' = TRUE
    /\ result' = Null
    /\ activeTab' = "single"
    /\ pc' = "delay"
    /\ batchOps' = batchOps + 1
    /\ unmountBatch
    /\ UNCHANGED <<csv, history, locals, ruleVars, hookVars, viewVars>>

\* the Textarea's onChange: setUrls(e.target.value)
SetUrls ==
    /\ bpc # "off"
    /\ batchOps < MaxBatchOps
    /\ \E text \in EditedTexts(urls) : urls' = text
    /\ batchOps' = batchOps + 1
    /\ UNCHANGED <<urlList, bpc, idx, batchResults, results, progress,
                   batchIsAnalyzing, csv, ruleVars, pageVars, hookVars, viewVars,
                   overlapVars>>

\* the Clear button, disabled while isAnalyzing: setUrls(''), setResults([])
ClearBatch ==
    /\ bpc # "off"
    /\ ~batchIsAnalyzing
    /\ batchOps < MaxBatchOps
    /\ urls' = <<>>
    /\ results' = <<>>
    /\ batchOps' = batchOps + 1
    /\ UNCHANGED <<urlList, bpc, idx, batchResults, progress, batchIsAnalyzing, csv,
                   ruleVars, pageVars, hookVars, viewVars, overlapVars>>

\* the Export CSV button, shown with the results: exportResults()
ExportResults ==
    /\ Len(results) > 0
    /\ batchOps < MaxBatchOps
    /\ csv' = exportResults(results)
    /\ batchOps' = batchOps + 1
    /\ UNCHANGED <<urls, urlList, bpc, idx, batchResults, results, progress,
                   batchIsAnalyzing, ruleVars, pageVars, hookVars, viewVars,
                   overlapVars>>

\* handleAnalyze up to the loop: returns at once when there is no URL, and
\* its locals with it
BatchHandleAnalyzeStart ==
    /\ bpc = "idle"
    /\ batchOps < MaxBatchOps
    /\ batchOps' = batchOps + 1
    /\ IF Len(parseUrls(urls)) = 0
       THEN UNCHANGED <<urlList, bpc, idx, batchResults, results, progress,
                        batchIsAnalyzing>>
       ELSE /\ urlList' = parseUrls(urls)
            /\ batchIsAnalyzing' = TRUE
            /\ results' = <<>>
            /\ progress' = <<0, 1>>
            /\ batchResults' = <<>>
            /\ idx' = 0
            /\ bpc' = "loop"
    /\ UNCHANGED <<urls, csv, ruleVars, pageVars, hookVars, viewVars, overlapVars>>

\* one iteration of the loop, up to its await
BatchHandleAnalyzeStep ==
    /\ bpc = "loop"
    /\ idx < Len(urlList)
    /\ batchResults' = Append(batchResults, batchResultOf(urlList[idx + 1]))
    /\ progress' = <<idx + 1, Len(urlList)>>
    /\ idx' = idx + 1
    /\ UNCHANGED <<urls, urlList, bpc, results, batchIsAnalyzing, csv, batchOps,
                   ruleVars, pageVars, hookVars, viewVars, overlapVars>>

\* handleAnalyze after the loop: setResults(batchResults), setIsAnalyzing(false)
BatchHandleAnalyzeFinish ==
    /\ bpc = "loop"
    /\ idx = Len(urlList)
    /\ results' = batchResults
    /\ batchIsAnalyzing' = FALSE
    /\ bpc' = "idle"
    /\ UNCHANGED <<urls, urlList, idx, batchResults, progress, csv, batchOps,
                   ruleVars, pageVars, hookVars, viewVars, overlapVars>>

NextBatch ==
    \/ SelectBatchTab
    \/ LeaveBatchTab
    \/ SetUrls
    \/ ClearBatch
    \/ BatchHandleAnalyzeStart
    \/ BatchHandleAnalyzeStep
    \/ BatchHandleAnalyzeFinish
    \/ ExportResults
    \/ BatchRowClick
    \/ OverlapAnalyzeFinish

SpecBatch == InitBatch /\ [][NextBatch]_vars

-----------------------------------------------------------------------------
(* SpecHistory: one instance of useScanHistory, from mount on.  An update made
   in an effect or in a timer's continuation is queued and shown by a later
   render, which takes all the updates queued by then; an update made in a
   click is rendered, and the effects of that render run, before the click
   returns.  The effects of a render run before the next render starts. *)

MaxHistoryOps == 4

\* useScanHistory.removeItem: the updater of setHistory
RECURSIVE removeItem(_, _)
removeItem(prev, id) ==
    IF prev = <<>> THEN <<>>
    ELSE (IF prev[1].id # id THEN <<prev[1]>> ELSE <<>>) \o removeItem(Tail(prev), id)

\* a list the hook has saved before: n items, the newest first
storedList(n) ==
    [k \in 1..n |-> [id |-> n + 1 - k, url |-> Str("a.tk"),
                     classification |-> "legitimate", riskScore |-> 8]]

\* the lengths of the stored lists: empty, one item, one below the cap, the cap
StoredLengths == {0, 1, MAX_HISTORY - 1, MAX_HISTORY}

\* what addScan is called with
ScanInputs ==
    { [url |-> Str("a.tk"), classification |-> "legitimate", riskScore |-> 8],
      [url |-> Str("http://1.1.1.1/login@"), classification |-> "phishing",
       riskScore |-> 58] }

\* the items the history panel offers to remove: the first two and the last
RemovePositions(h) == {1, 2, Len(h)} \cap (1..Len(h))

\* a queued update: the setter or function called (clearHistory for its
\* setHistory([])), and what it was called with: the list of setHistory or the
\* new item of addScan (items), the id of removeItem, the URL whose
\* AnalysisState setResult was called with
update(op, items, id, url) == [op |-> op, items |-> items, id |-> id, url |-> url]

\* the updates the load effect makes, part_000 416-432: setHistory(items) if
\* an item is stored, then setIsLoaded(true)
loadUpdates(st) ==
    (IF st.present THEN <<update("setHistory", st.items, 0, <<>>)>> ELSE <<>>)
    \o <<update("setIsLoaded", <<>>, 0, <<>>)>>

\* the update addScan makes, part_000 445-464: its updater, with the new item
scanUpdate(id, url, classification, riskScore) ==
    update("addScan", <<[id |-> id, url |-> url, classification |-> classification,
                         riskScore |-> riskScore]>>, 0, <<>>)

\* one update of the history applied to the list before it
applyUpdate(prev, u) ==
    CASE u.op = "setHistory" -> u.items
      [] u.op = "addScan" -> addScan(prev, u.items[1].id, u.items[1].url,
                                     u.items[1].classification, u.items[1].riskScore)
      [] u.op = "removeItem" -> removeItem(prev, u.id)
      [] u.op = "clearHistory" -> <<>>
      [] OTHER -> prev

\* the updates of a queue applied in the order they were made
RECURSIVE applyUpdates(_, _)
applyUpdates(prev, q) ==
    IF q = <<>> THEN prev ELSE applyUpdates(applyUpdate(prev, Head(q)), Tail(q))

\* the queue holds an update of this state
updates(q, op) == \E k \in 1..Len(q) : q[k].op = op

\* the last update of this state in a queue that holds one
lastUpdate(q, op) ==
    LET ks == {k \in 1..Len(q) : q[k].op = op}
    IN  q[CHOOSE k \in ks : \A j \in ks : j <= k]

\* the render of a queue ends on an array other than the one rendered: the
\* last update of the history is not the setHistory([]) of a click, whose array
\* is the one the click has rendered (the updaters of addScan and removeItem
\* and the load's JSON.parse make a new array each time they run)
newHistory(q) ==
    LET hs == SelectSeq(q, LAMBDA u : u.op \in {"setHistory", "addScan", "removeItem",
                                                  "clearHistory"})
    IN  hs # <<>> /\ hs[Len(hs)].op # "clearHistory"

\* the load effect of the instance has run
loadRun == isLoaded \/ updates(queue, "setIsLoaded")

\* the queue once the effects of the mount have run, reading the store st:
\* every render starts by running the effects still due
mountEffectsRun(q, st) == IF loadRun THEN q ELSE q \o loadUpdates(st)

\* the queue after an update made in a click and rendered at once: the updates
\* queued before it are not part of that render, and the later render applies
\* them and the click's update, in the order they were made, to the history
\* from before the click
clicked(q, u) == IF q = <<>> THEN <<>> ELSE Append(q, u)

\* the hook before its effects have run
InitHistory ==
    /\ history = <<>>
    /\ isLoaded = FALSE
    /\ \/ storage = NoItem /\ nextId = 1
       \/ \E n \in StoredLengths : storage = Stored(storedList(n)) /\ nextId = n + 1
    /\ hops = 0
    /\ saveDue = FALSE
    /\ queue = <<>>
    /\ baseHistory = <<>>
    /\ reqUrl = <<>> /\ pc = "off" /\ isAnalyzing = FALSE /\ result = Null
    /\ activeTab = "single" /\ locals = Null
    /\ RulesIdle
    /\ BatchIdle
    /\ ViewIdle
    /\ pending = <<>>

\* mutant: the save effect runs unguarded before the load and stores the
\* empty initial history, which the load then reads
LoadHistory_SavesBeforeLoading ==
    /\ ~loadRun
    /\ storage' = Stored(<<>>)
    /\ queue' = queue \o loadUpdates(Stored(<<>>))
    /\ UNCHANGED <<history, isLoaded, nextId, hops, saveDue, baseHistory, reqUrl, pc,
                   isAnalyzing, result, activeTab, locals, ruleVars, batchVars,
                   viewVars, overlapVars>>

\* the effects of the mount: the load effect reads the store and queues its
\* updates; the save effect of the mount writes nothing (isLoaded is false)
LoadHistory ==
    /\ ~loadRun
    /\ queue' = queue \o loadUpdates(storage)
    /\ UNCHANGED <<history, isLoaded, storage, nextId, hops, saveDue, baseHistory,
                   reqUrl, pc, isAnalyzing, result, activeTab, locals, ruleVars,
                   batchVars, viewVars, overlapVars>>

\* the save effect, run after the render that changed history or isLoaded:
\* localStorage.setItem(STORAGE_KEY, JSON.stringify(history)) if isLoaded
SaveHistory ==
    /\ saveDue
    /\ storage' = (IF isLoaded THEN Stored(history) ELSE storage)
    /\ saveDue' = FALSE
    /\ UNCHANGED <<history, isLoaded, nextId, hops, queue, baseHistory, reqUrl, pc,
                   isAnalyzing, result, activeTab, locals, ruleVars, batchVars,
                   viewVars, overlapVars>>

\* the store once the save effect still due has run
savedFirst == IF saveDue /\ isLoaded THEN Stored(history) ELSE storage

\* the render of the queued updates: the effects still due run first (the
\* save effect, and those of the mount if they have not run), then all the
\* updates queued are applied; the save effect (deps [history, isLoaded]) is
\* left to run if the render changed isLoaded or ends on a new array
RenderHistory ==
    /\ queue # <<>>
    /\ LET q == mountEffectsRun(queue, storage)
       IN  /\ history' = applyUpdates(baseHistory, q)
           /\ isLoaded' = (isLoaded \/ updates(q, "setIsLoaded"))
           /\ saveDue' = (isLoaded' # isLoaded \/ newHistory(q))
    /\ baseHistory' = history'
    /\ storage' = savedFirst
    /\ queue' = <<>>
    /\ UNCHANGED <<nextId, hops, reqUrl, pc, isAnalyzing, result, activeTab, locals,
                   ruleVars, batchVars, viewVars, overlapVars>>

\* addScan(url, classification, riskScore), called from a timer's
\* continuation: the updater is queued
AddScan ==
    /\ hops < MaxHistoryOps
    /\ \E scan \in ScanInputs :
          queue' = Append(queue, scanUpdate(nextId, scan.url, scan.classification,
                                            scan.riskScore))
    /\ nextId' = nextId + 1
    /\ hops' = hops + 1
    /\ UNCHANGED <<history, isLoaded, storage, saveDue, baseHistory, reqUrl, pc,
                   isAnalyzing, result, activeTab, locals, ruleVars, batchVars,
                   viewVars, overlapVars>>

\* removeItem(id) of an item shown, called from a click: the render and its
\* save effect run before the click returns
RemoveItem ==
    /\ hops < MaxHistoryOps
    /\ \E k \in RemovePositions(history) :
          /\ history' = removeItem(history, history[k].id)
          /\ queue' = clicked(queue, update("removeItem", <<>>, history[k].id, <<>>))
    /\ baseHistory' = (IF queue = <<>> THEN history' ELSE baseHistory)
    /\ storage' = (IF isLoaded THEN Stored(history') ELSE storage)
    /\ saveDue' = FALSE
    /\ hops' = hops + 1
    /\ UNCHANGED <<isLoaded, nextId, reqUrl, pc, isAnalyzing, result, activeTab, locals,
                   ruleVars, batchVars, viewVars, overlapVars>>

\* clearHistory(), called from a click: setHistory([]) and
\* localStorage.removeItem in the handler, then the effects still due (those of
\* the mount read the store without the item), the render of the empty list
\* and its save effect, which stores the empty list if isLoaded
ClearHistory ==
    /\ hops < MaxHistoryOps
    /\ history' = <<>>
    /\ queue' = mountEffectsRun(clicked(queue, update("clearHistory", <<>>, 0, <<>>)),
                                NoItem)
    /\ baseHistory' = (IF queue = <<>> THEN <<>> ELSE baseHistory)
    /\ storage' = (IF isLoaded THEN Stored(<<>>) ELSE NoItem)
    /\ saveDue' = FALSE
    /\ hops' = hops + 1
    /\ UNCHANGED <<isLoaded, nextId, reqUrl, pc, isAnalyzing, result, activeTab, locals,
                   ruleVars, batchVars, viewVars, overlapVars>>

NextHistory ==
    LoadHistory \/ SaveHistory \/ RenderHistory \/ AddScan \/ RemoveItem \/ ClearHistory

SpecHistory == InitHistory /\ [][NextHistory]_vars

\* the save effect is a task React has scheduled: it runs
SpecHistoryFair == SpecHistory /\ WF_vars(SaveHistory)

-----------------------------------------------------------------------------
(* SpecViews: the page-level instance of useScanHistory (Index 119) and the
   instance of the history tab (ScanHistory 11), on one localStorage item.
   queue holds the updates of Index queued for the next render; the updates of
   the tab's load effect are queued while the tab is mounted and not loaded *)

\* the scans, removals and clears of a run
MaxViewOps == 3

\* the lengths of the lists stored before the page is opened
ViewStoredLengths == {1, 2}

\* the URLs scanned from the page
ScanUrls == {Str("a.tk"), Str("http://1.1.1.1/login@")}

\* Index.handleAnalyze 131-146 of each of these URLs
ScanStates == {<<url, analysisStateOf(url)>> : url \in ScanUrls}

scanStateOf(url) == (CHOOSE p \in ScanStates : p[1] = url)[2]

StoredIds(st) == {st.items[k].id : k \in 1..Len(st.items)}

\* Index as mounted, its effects not yet run; the history tab is not shown
InitViews ==
    /\ history = <<>>
    /\ isLoaded = FALSE
    /\ \/ storage = NoItem /\ nextId = 1
       \/ \E n \in ViewStoredLengths :
             storage = Stored(storedList(n)) /\ nextId = n + 1
    /\ hops = 0
    /\ saveDue = FALSE
    /\ queue = <<>>
    /\ baseHistory = <<>>
    /\ reqUrl = <<>> /\ pc = "idle" /\ isAnalyzing = FALSE /\ result = Null
    /\ activeTab = "single" /\ locals = Null
    /\ RulesIdle
    /\ BatchIdle
    /\ ViewIdle
    /\ pending = <<>>

\* the effects of Index's mount: the load effect of the page-level instance
\* reads the store and queues its updates
MountIndex ==
    /\ ~loadRun
    /\ queue' = queue \o loadUpdates(storage)
    /\ UNCHANGED <<history, isLoaded, storage, nextId, hops, saveDue, baseHistory,
                   reqUrl, pc, isAnalyzing, result, activeTab, locals, ruleVars,
                   batchVars, viewVars, overlapVars>>

\* the store once the save effects still due have run, the tab's (the child's)
\* before the page's: the effects of a render run before the next render starts
effectsRun ==
    IF saveDue /\ isLoaded THEN Stored(history)
    ELSE IF viewSaveDue /\ viewLoaded THEN Stored(viewHistory)
    ELSE storage

\* the save effects of the last render, run as a task of their own
SaveEffects ==
    /\ saveDue \/ viewSaveDue
    /\ storage' = effectsRun
    /\ saveDue' = FALSE
    /\ viewSaveDue' = FALSE
    /\ UNCHANGED <<history, isLoaded, nextId, hops, queue, baseHistory, reqUrl, pc,
                   isAnalyzing, result, activeTab, locals, viewLoaded, viewHistory,
                   removed, ruleVars, batchVars, overlapVars>>

\* the tab is mounted and the updates of its load effect are not rendered yet
loadQueued == activeTab = "history" /\ ~viewLoaded

\* the render of the queued updates: the effects still due run first, then
\* the updates of Index and those of the tab's load effect (the list read at
\* the tab's mount: the store has not changed since) are applied; the save
\* effects of the instances whose history or isLoaded changed are left to run
RenderViews ==
    /\ queue # <<>> \/ loadQueued
    /\ LET q == mountEffectsRun(queue, storage)
       IN  /\ history' = applyUpdates(baseHistory, q)
           /\ isLoaded' = (isLoaded \/ updates(q, "setIsLoaded"))
           /\ result' = (IF updates(q, "setResult")
                         THEN scanStateOf(lastUpdate(q, "setResult").url)
                         ELSE result)
           /\ isAnalyzing' = (isAnalyzing /\ ~updates(q, "setIsAnalyzing"))
           /\ saveDue' = (isLoaded' # isLoaded \/ newHistory(q))
    /\ baseHistory' = history'
    /\ queue' = <<>>
    /\ storage' = effectsRun
    /\ IF loadQueued
       THEN /\ viewHistory' = (IF storage.present THEN storage.items ELSE <<>>)
            /\ viewLoaded' = TRUE
       ELSE UNCHANGED <<viewHistory, viewLoaded>>
    /\ viewSaveDue' = loadQueued
    /\ UNCHANGED <<nextId, hops, reqUrl, pc, activeTab, locals, removed, ruleVars,
                   batchVars, overlapVars>>

\* the History tab is selected, a click: the effects still due run, ScanHistory
\* mounts, and the load effect of its instance reads the store and queues its
\* updates
SelectHistoryTab ==
    /\ activeTab # "history"
    /\ activeTab' = "history"
    /\ viewLoaded' = FALSE
    /\ viewHistory' = <<>>
    /\ queue' = mountEffectsRun(queue, storage)
    /\ storage' = effectsRun
    /\ saveDue' = FALSE
    /\ viewSaveDue' = FALSE
    /\ UNCHANGED <<history, isLoaded, nextId, hops, baseHistory, reqUrl, pc,
                   isAnalyzing, result, locals, removed, ruleVars, batchVars,
                   overlapVars>>

\* another tab is selected: ScanHistory unmounts and its instance is gone
LeaveHistoryTab ==
    /\ activeTab = "history"
    /\ \E tab \in {"single", "batch", "learn"} : activeTab' = tab
    /\ viewLoaded' = FALSE
    /\ viewHistory' = <<>>
    /\ storage' = effectsRun
    /\ saveDue' = FALSE
    /\ viewSaveDue' = FALSE
    /\ UNCHANGED <<history, isLoaded, nextId, hops, queue, baseHistory, reqUrl, pc,
                   isAnalyzing, result, locals, removed, ruleVars, batchVars,
                   overlapVars>>

\* ScanHistory 181-184: removeItem(item.id) on the tab's instance, called
\* from a click: the render and its save effect run before the click returns
ViewRemoveItem ==
    /\ viewLoaded
    /\ hops + Len(pending) < MaxViewOps
    /\ \E k \in RemovePositions(viewHistory) :
          /\ viewHistory' = removeItem(viewHistory, viewHistory[k].id)
          /\ removed' = removed \cup {viewHistory[k].id}
    /\ storage' = Stored(viewHistory')
    /\ saveDue' = FALSE
    /\ viewSaveDue' = FALSE
    /\ hops' = hops + 1
    /\ UNCHANGED <<history, isLoaded, nextId, queue, baseHistory, reqUrl, pc,
                   isAnalyzing, result, activeTab, locals, viewLoaded, ruleVars,
                   batchVars, overlapVars>>

\* ScanHistory 61: clearHistory on the tab's instance (the button is shown
\* when the history is not empty), called from a click, and its save effect
ViewClearHistory ==
    /\ viewLoaded
    /\ viewHistory # <<>>
    /\ hops + Len(pending) < MaxViewOps
    /\ viewHistory' = <<>>
    /\ removed' = removed \cup {viewHistory[k].id : k \in 1..Len(viewHistory)}
    /\ storage' = Stored(<<>>)
    /\ saveDue' = FALSE
    /\ viewSaveDue' = FALSE
    /\ hops' = hops + 1
    /\ UNCHANGED <<history, isLoaded, nextId, queue, baseHistory, reqUrl, pc,
                   isAnalyzing, result, activeTab, locals, viewLoaded, ruleVars,
                   batchVars, overlapVars>>

\* the updates of Index without those of result and isAnalyzing: a set made
\* in a click overrides the sets queued before it
withoutSets(q) ==
    SelectSeq(q, LAMBDA u : u.op \notin {"setResult", "setIsAnalyzing"})

\* handleAnalyze(url) up to the await, called from a click (an example
\* button, a row of the history or of the batch results, the Analyze button):
\* the effects still due run, setActiveTab('single') unmounts the history tab,
\* and the call joins the calls inside their delay
ViewsAnalyzeStart ==
    /\ hops + Len(pending) < MaxViewOps
    /\ \E url \in ScanUrls :
          /\ reqUrl' = url
          /\ pending' = Append(pending, url)
    /\ isAnalyzing' = TRUE
    /\ result' = Null
    /\ activeTab' = "single"
    /\ viewLoaded' = FALSE
    /\ viewHistory' = <<>>
    /\ queue' = withoutSets(mountEffectsRun(queue, storage))
    /\ storage' = effectsRun
    /\ saveDue' = FALSE
    /\ viewSaveDue' = FALSE
    /\ pc' = "delay"
    /\ UNCHANGED <<history, isLoaded, nextId, hops, baseHistory, locals, removed,
                   ruleVars, batchVars>>

\* Index.handleAnalyze 147-157: addScan on the page-level instance,
\* setResult(state) and setIsAnalyzing(false), queued
scanWith(url, state) ==
    queue' = queue \o <<scanUpdate(nextId, url, state.classification,
                                   state.combinedScore),
                        update("setResult", <<>>, 0, url),
                        update("setIsAnalyzing", <<>>, 0, <<>>)>>

\* handleAnalyze after the delay, the continuation of the oldest call's timer
\* (the delays are equal): the analysis, and its updates queued
ViewsAnalyzeFinish ==
    /\ pending # <<>>
    /\ scanWith(Head(pending), scanStateOf(Head(pending)))
    /\ pending' = Tail(pending)
    /\ nextId' = nextId + 1
    /\ hops' = hops + 1
    /\ pc' = (IF Tail(pending) = <<>> THEN "shown" ELSE "delay")
    /\ UNCHANGED <<history, isLoaded, storage, saveDue, baseHistory, reqUrl,
                   isAnalyzing, result, activeTab, locals, viewVars, ruleVars,
                   batchVars>>

\* the page is loaded again: Index mounts anew, its effects not yet run; the
\* updates queued, the timers and the effects still due are lost
ReloadPage ==
    /\ history' = <<>>
    /\ isLoaded' = FALSE
    /\ queue' = <<>>
    /\ baseHistory' = <<>>
    /\ pending' = <<>>
    /\ reqUrl' = <<>> /\ pc' = "idle" /\ isAnalyzing' = FALSE /\ result' = Null
    /\ activeTab' = "single"
    /\ viewLoaded' = FALSE
    /\ viewHistory' = <<>>
    /\ saveDue' = FALSE
    /\ viewSaveDue' = FALSE
    /\ UNCHANGED <<storage, nextId, hops, locals, removed, ruleVars, batchVars>>

NextViews ==
    \/ MountIndex \/ SaveEffects \/ RenderViews \/ SelectHistoryTab
    \/ LeaveHistoryTab \/ ViewRemoveItem \/ ViewClearHistory
    \/ ViewsAnalyzeStart \/ ViewsAnalyzeFinish \/ ReloadPage

SpecViews == InitViews /\ [][NextViews]_vars

-----------------------------------------------------------------------------
(* Properties of the pure functions, checked under SpecRules *)

Returned(f) == rpc = "return" /\ fn = f

Rank(level) == CASE level = "safe" -> 0 [] level = "warning" -> 1 [] level = "danger" -> 2

Severity(class) ==
    CASE class = "legitimate" -> 0 [] class = "suspicious" -> 1 [] class = "phishing" -> 2

\* C1: for every BasicFeatures and AdvancedFeatures value, basicScore,
\* advancedScore and the combinedScore of any two such scores are integers
\* in 0..100.
C1_ScoresInRange ==
    /\ Returned("analyzeFeatures") => ret.riskScore \in 0..100
    /\ Returned("analyzeAdvancedFeatures") => ret.advancedScore \in 0..100
    /\ Returned("combine") =>
          /\ ret.combinedScore \in 0..100
          /\ ret.batchCombinedScore \in 0..100

\* the clamp acts: a weight sum above 18 is scored 100
C1_Witness ==
    /\ Returned("analyzeAdvancedFeatures")
    /\ totalWeight(ret.advancedAnalysis) > 180
    /\ ret.advancedScore = 100

\* C2: classifyURL is the step function legitimate < 25 <= suspicious < 50
\* <= phishing on every integer score in 0..100.
C2_ClassifyBoundaries ==
    Returned("classifyURL") =>
        /\ ret.classification = "legitimate" <=> arg < 25
        /\ ret.classification = "suspicious" <=> (25 <= arg /\ arg < 50)
        /\ ret.classification = "phishing" <=> arg >= 50
        /\ arg = 24 => ret.classification = "legitimate"
        /\ arg \in {25, 49} => ret.classification = "suspicious"
        /\ arg = 50 => ret.classification = "phishing"

C2_Witness == Returned("classifyURL") /\ arg = 25 /\ ret.classification = "suspicious"

\* B is A with exactly one rule moved to a higher risk level
RaisesOneRule(A, B) ==
    /\ Len(A) = Len(B)
    /\ \E k \in 1..Len(A) :
          /\ Rank(B[k].riskLevel) > Rank(A[k].riskLevel)
          /\ \A j \in 1..Len(A) : j # k => B[j].riskLevel = A[j].riskLevel

\* the BasicFeatures that differ from f in one drawn feature
BasicNeighbours(f) ==
    {[f EXCEPT !.urlLength = x, !.domainLength = x] : x \in UrlLengths}
    \cup {[f EXCEPT !.hasAtSymbol = x] : x \in BOOLEAN}
    \cup {[f EXCEPT !.hasDoubleSlash = x] : x \in BOOLEAN}
    \cup {[f EXCEPT !.hasDash = x] : x \in BOOLEAN}
    \cup {[f EXCEPT !.hasIPAddress = x] : x \in BOOLEAN}
    \cup {[f EXCEPT !.isHTTPS = x] : x \in BOOLEAN}
    \cup {[f EXCEPT !.subdomainCount = x, !.hasMultipleSubdomains = (x > 2)] :
             x \in 0..MaxSubdomainCount}
    \cup {[f EXCEPT !.hasSuspiciousKeywords = x] : x \in BOOLEAN}
    \cup {[f EXCEPT !.hasEncodedChars = x] : x \in BOOLEAN}

\* the AdvancedFeatures that differ from g in one feature
AdvancedNeighbours(g) ==
    {[g EXCEPT !.entropyScore = x] : x \in EntropyScores}
    \cup {[g EXCEPT !.hasHomographChars = x] : x \in BOOLEAN}
    \cup {[g EXCEPT !.brandImpersonation = x] : x \in BrandNames \cup {Null}}
    \cup {[g EXCEPT !.typosquattingScore = x] : x \in TyposquattingScores}
    \cup {[g EXCEPT !.suspiciousTLD = x] : x \in BOOLEAN}
    \cup {[g EXCEPT !.punycodeDomain = x] : x \in BOOLEAN}
    \cup {[g EXCEPT !.shortenedURL = x] : x \in BOOLEAN}
    \cup {[g EXCEPT !.redirectRisk = x] : x \in BOOLEAN}
    \cup {[g EXCEPT !.portAnomalies = x] : x \in BOOLEAN}

\* C8: moving one rule to a higher risk level never lowers the layer's score;
\* combinedScore is non-decreasing in basicScore and in advancedScore, and the
\* classification never moves to a less severe class.
C8_Monotone ==
    /\ Returned("analyzeFeatures") =>
          \A g \in BasicNeighbours(arg) :
              RaisesOneRule(ret.analysis, analyzeFeatures(g)) =>
                  LET s2 == calculateRiskScore(analyzeFeatures(g))
                  IN  /\ s2 >= ret.riskScore
                      /\ Severity(classifyURL(s2)) >= Severity(ret.classification)
    /\ Returned("analyzeAdvancedFeatures") =>
          \A g \in AdvancedNeighbours(arg) :
              RaisesOneRule(ret.advancedAnalysis, analyzeAdvancedFeatures(g)) =>
                  calculateAdvancedRiskScore(analyzeAdvancedFeatures(g))
                      >= ret.advancedScore
    /\ Returned("combine") =>
          /\ \A b \in arg.riskScore..100 :
                LET c2 == combinedScoreOf(b, arg.advancedScore)
                IN  /\ c2 >= ret.combinedScore
                    /\ Severity(finalClassificationOf(c2)) >= Severity(ret.classification)
          /\ \A a \in arg.advancedScore..100 :
                LET c2 == combinedScoreOf(arg.riskScore, a)
                IN  /\ c2 >= ret.combinedScore
                    /\ Severity(finalClassificationOf(c2)) >= Severity(ret.classification)

\* a rule that can move from warning to danger has been scored at warning
C8_Witness ==
    /\ Returned("analyzeFeatures")
    /\ ret.analysis[1].riskLevel = "warning"
    /\ \E g \in BasicNeighbours(arg) :
          /\ RaisesOneRule(ret.analysis, analyzeFeatures(g))
          /\ calculateRiskScore(analyzeFeatures(g)) > ret.riskScore

BasicRuleOrder ==
    << "URL Length", "@ Symbol Present", "Double Slash (//) in Path",
       "Dash (-) in Domain", "IP Address Instead of Domain", "HTTPS Protocol",
       "Subdomain Count", "Suspicious Keywords", "Encoded Characters" >>

AdvancedRuleOrder ==
    << "Domain Entropy", "Homograph Characters", "Brand Impersonation",
       "Typosquatting Risk", "Suspicious TLD", "Punycode (xn--) Domain",
       "Shortened URL", "Redirect Patterns", "Port Anomalies" >>

AdvancedCategoryOrder ==
    << "entropy", "impersonation", "impersonation", "impersonation", "reputation",
       "impersonation", "structure", "structure", "structure" >>

\* C10: both analyzers return exactly 9 findings in the fixed rule order,
\* the advanced ones with their fixed categories, whatever the feature values.
C10_FixedFindings ==
    /\ Returned("analyzeFeatures") =>
          /\ Len(ret.analysis) = 9
          /\ [k \in 1..9 |-> ret.analysis[k].feature] = BasicRuleOrder
    /\ Returned("analyzeAdvancedFeatures") =>
          /\ Len(ret.advancedAnalysis) = 9
          /\ [k \in 1..9 |-> ret.advancedAnalysis[k].feature] = AdvancedRuleOrder
          /\ [k \in 1..9 |-> ret.advancedAnalysis[k].category] = AdvancedCategoryOrder

\* a call with every advanced rule safe, and one with every basic rule raised
C10_Witness ==
    /\ Returned("analyzeAdvancedFeatures")
    /\ arg.brandImpersonation = Null
    /\ \A k \in 1..Len(ret.advancedAnalysis) : ret.advancedAnalysis[k].riskLevel = "safe"

-----------------------------------------------------------------------------
(* Properties of the single-URL page, checked under Spec *)

Shown(u) == pc = "shown" /\ reqUrl = u

BitLyUrl == Str("https://bit.ly/3xYz")

\* C3: for http://192.168.1.1/login/verify-account the features are
\* hasIPAddress, not isHTTPS, hasSuspiciousKeywords; basicScore is at least 50,
\* so that classifyURL calls it phishing, and the classification shown is phishing.
C3_IpLoginIsPhishing ==
    Shown(exampleUrls[2]) =>
        /\ locals.features.hasIPAddress
        /\ ~locals.features.isHTTPS
        /\ locals.features.hasSuspiciousKeywords
        /\ result.riskScore >= 50
        /\ locals.classification = "phishing"
        /\ result.classification = "phishing"

\* C4: for https://secure-login-paypal.suspicious-domain.com/account the
\* features are hasDash, hasSuspiciousKeywords and brandImpersonation PayPal;
\* combinedScore is at least 50 and the classification is phishing.
C4_PaypalLookalikeIsPhishing ==
    Shown(exampleUrls[3]) =>
        /\ locals.features.hasDash
        /\ locals.features.hasSuspiciousKeywords
        /\ locals.advancedFeatures.brandImpersonation = "PayPal"
        /\ result.combinedScore = combinedScoreOf(result.riskScore, result.advancedScore)
        /\ result.combinedScore >= 50
        /\ result.classification = "phishing"

\* C5: for https://bit.ly/3xYz shortenedURL is true and redirectRisk false,
\* the Shortened URL finding of the structure category is a warning, and the
\* combined classification is not legitimate.
C5_ShortenerIsNotLegitimate ==
    Shown(BitLyUrl) =>
        /\ locals.advancedFeatures.shortenedURL
        /\ ~locals.advancedFeatures.redirectRisk
        /\ \E k \in 1..Len(result.advancedAnalysis) :
              /\ result.advancedAnalysis[k].feature = "Shortened URL"
              /\ result.advancedAnalysis[k].category = "structure"
              /\ result.advancedAnalysis[k].riskLevel = "warning"
        /\ result.classification # "legitimate"

\* C6: for https://www.google.com the basic features are isHTTPS, no IP
\* address, no dash and subdomainCount 1; basicScore is below 25, and both
\* classifyURL(basicScore) and the combined classification are legitimate.
C6_GoogleIsLegitimate ==
    Shown(exampleUrls[1]) =>
        /\ locals.features.isHTTPS
        /\ ~locals.features.hasIPAddress
        /\ ~locals.features.hasDash
        /\ locals.features.subdomainCount = 1
        /\ result.riskScore < 25
        /\ locals.classification = "legitimate"
        /\ result.classification = "legitimate"

\* the analysis of https://www.google.com is on screen; its one raised rule is
\* Suspicious Keywords ("google" is a keyword)
C6_Witness ==
    /\ Shown(exampleUrls[1])
    /\ result.riskScore = 9
    /\ result.analysis[8].riskLevel = "warning"

BasicFeatureFields ==
    { "urlLength", "hasAtSymbol", "hasDoubleSlash", "hasDash", "hasIPAddress",
      "isHTTPS", "subdomainCount", "hasMultipleSubdomains", "hasSuspiciousKeywords",
      "domainLength", "pathLength", "hasEncodedChars", "hasTooManyDots" }

AdvancedFeatureFields ==
    { "entropyScore", "hasHomographChars", "typosquattingScore", "suspiciousTLD",
      "domainAge", "redirectRisk", "portAnomalies", "punycodeDomain",
      "brandImpersonation", "shortenedURL" }

Classes == {"legitimate", "suspicious", "phishing"}

\* every field of a URLFeatures is set, with a value of its type
CompleteBasicFeatures(f) ==
    /\ DOMAIN f = BasicFeatureFields
    /\ \A name \in {"urlLength", "subdomainCount", "domainLength", "pathLength"} :
          f[name] \in Nat
    /\ \A name \in BasicFeatureFields
                   \ {"urlLength", "subdomainCount", "domainLength", "pathLength"} :
          f[name] \in BOOLEAN

\* every field of an AdvancedFeatures is set, with a value of its type
CompleteAdvancedFeatures(g) ==
    /\ DOMAIN g = AdvancedFeatureFields
    /\ g.entropyScore \in Nat
    /\ g.typosquattingScore \in 0..100
    /\ g.domainAge = "unknown"
    /\ g.brandImpersonation \in BrandNames \cup {Null}
    /\ \A name \in {"hasHomographChars", "suspiciousTLD", "redirectRisk",
                    "portAnomalies", "punycodeDomain", "shortenedURL"} :
          g[name] \in BOOLEAN

\* C7: for any non-empty input, whether new URL succeeds or throws, the
\* handler ends with all 13 basic and all 10 advanced features set and with an
\* assessment of 9 + 9 findings, three scores and one classification.
C7_CompleteAssessment ==
    /\ pc \in {"idle", "delay", "shown"}
    /\ pc = "shown" =>
          /\ reqUrl # <<>>
          /\ ~isAnalyzing
          /\ CompleteBasicFeatures(locals.features)
          /\ CompleteAdvancedFeatures(locals.advancedFeatures)
          /\ Len(result.analysis) = 9
          /\ Len(result.advancedAnalysis) = 9
          /\ \A k \in 1..9 :
                /\ result.analysis[k].riskLevel \in RiskLevels
                /\ result.advancedAnalysis[k].riskLevel \in RiskLevels
          /\ result.riskScore \in 0..100
          /\ result.advancedScore \in 0..100
          /\ result.combinedScore \in 0..100
          /\ result.classification \in Classes
          /\ locals.classification \in Classes

\* an input new URL throws on ("httpbin.org/a b": no "https://" is put before
\* it, and it has no scheme) has been analysed from the raw string
C7_Witness ==
    /\ Shown(Str("httpbin.org/a b"))
    /\ ~parseURL(urlWithProtocol(reqUrl)).ok
    /\ locals.features.domainLength = Len(reqUrl)
    /\ locals.features.pathLength = 0
    /\ result.classification = "legitimate"

-----------------------------------------------------------------------------
(* Properties of the batch tab, checked under SpecBatch *)

\* the four values the claim compares, as the single-URL handler computes them
SingleAssessment(url) ==
    LET state == analysisStateOf(url)
    IN  [riskScore |-> state.riskScore, advancedScore |-> state.advancedScore,
         combinedScore |-> state.combinedScore, classification |-> state.classification]

\* the URLs a text of the batch tab can name, and what the single-URL handler
\* computes for each of them alone
BatchUrlSpace == ({trim(e) : e \in BatchEntries} \ {<<>>}) \cup {Str("x.com")}

SingleAssessments == {<<url, SingleAssessment(url)>> : url \in BatchUrlSpace}

SingleAssessmentOf(url) == (CHOOSE p \in SingleAssessments : p[1] = url)[2]

BatchAssessment(r) ==
    [riskScore |-> r.riskScore, advancedScore |-> r.advancedScore,
     combinedScore |-> r.combinedScore, classification |-> r.classification]

\* C9: what the batch handler records for a URL is what the single-URL
\* handler computes for that URL alone, at every position of the list and
\* whatever the other URLs of the list are.
C9_BatchIndependence ==
    /\ Len(batchResults) <= Len(urlList)
    /\ \A k \in 1..Len(batchResults) :
          /\ batchResults[k].url = urlList[k]
          /\ BatchAssessment(batchResults[k]) = SingleAssessmentOf(urlList[k])
    /\ (bpc = "idle" /\ Len(results) > 0) => results = batchResults

\* a finished batch of two URLs with different assessments
C9_Witness ==
    /\ bpc = "idle"
    /\ Len(results) = 2
    /\ results[1].url = Str("paypa1.com:81")
    /\ results[2].url = Str("bit.ly/x")
    /\ results[1].classification = "suspicious"
    /\ results[2].classification = "legitimate"

-----------------------------------------------------------------------------
(* The normalization constants, checked under SpecRules *)

\* the largest weight (tenths) each basic rule can give, in the order of the
\* findings
MaxBasicWeights == <<20, 30, 15, 10, 30, 15, 25, 15, 10>>

\* C13: no URLFeatures value gives a weight sum above 17, some value gives
\* exactly 17, and the basic score is 100 only when each of the nine rules
\* gives its largest weight
C13_BasicMaximumIs17 ==
    Returned("analyzeFeatures") =>
        /\ totalWeight(ret.analysis) <= 170
        /\ ret.riskScore = 100 =>
              \A k \in 1..9 : ret.analysis[k].weight = MaxBasicWeights[k]

\* a value with the weight sum 17
C13_Witness ==
    /\ Returned("analyzeFeatures")
    /\ totalWeight(ret.analysis) = 170
    /\ ret.riskScore = 100

\* Math.round((sum / 18) * 100) without the clamp, sum in tenths
UnclampedAdvanced(sum) == RoundDiv(sum * 100, 180)

\* C14 as stated: the largest weight sum is 18.5, its unclamped score exceeds
\* 100, the clamp keeps the score at 100, and the weight sum 18 is produced
\* too (and scores 100)
C14_TwoSumsReach100 ==
    /\ Returned("analyzeAdvancedFeatures") =>
          /\ totalWeight(ret.advancedAnalysis) <= 185
          /\ totalWeight(ret.advancedAnalysis) = 185 =>
                UnclampedAdvanced(185) > 100 /\ ret.advancedScore = 100
    /\ \E g \in AdvancedFeatureSpace :
          totalWeight(analyzeAdvancedFeatures(g)) = 180

\* C14, amended: the largest weight sum is 18.5, its unclamped score exceeds
\* 100 and the clamp keeps the score at 100; the score is 100 for the weight
\* sum 18.5 only (no value gives the sum 18; the next sum, 17.5, scores 97)
C14_OnlyMaximumReaches100 ==
    Returned("analyzeAdvancedFeatures") =>
        LET sum == totalWeight(ret.advancedAnalysis)
        IN  /\ sum <= 185
            /\ sum # 180
            /\ sum = 185 => UnclampedAdvanced(sum) > 100 /\ ret.advancedScore = 100
            /\ ret.advancedScore = 100 => sum = 185
            /\ sum = 175 => ret.advancedScore = 97

\* every advanced rule at its largest weight: 103 unclamped, 100 returned
C14_Witness ==
    /\ Returned("analyzeAdvancedFeatures")
    /\ totalWeight(ret.advancedAnalysis) = 185
    /\ UnclampedAdvanced(totalWeight(ret.advancedAnalysis)) = 103
    /\ ret.advancedScore = 100

-----------------------------------------------------------------------------
(* Brand impersonation, checked under SpecRules *)

\* C15: a URL whose host is the official domain of a brand (with or without
\* scheme and "www.") gives null: the similarity 1 of its first label does not
\* count, and no other brand of the table matches it
C15_OfficialDomainIsNotImpersonation ==
    Returned("detectBrandImpersonation") /\ arg \in OfficialUrls =>
        ret.brandImpersonation = Null

\* the official domain of the last brand of the table, after the twelve
\* brands before it were tried
C15_Witness ==
    /\ Returned("detectBrandImpersonation")
    /\ arg = Str("https://www.wellsfargo.com/a")
    /\ ret.brandImpersonation = Null

\* url contains a pattern listed for brand without its official domain
ContainsVariantOf(url, brand) ==
    /\ \E k \in 1..Len(brand.patterns) : includes(url, brand.patterns[k])
    /\ ~includes(url, officialDomainOf(brand))

\* C16: a URL that contains a pattern of a brand as the table writes it, and
\* not the brand's official domain, gives a brand name, never null
C16_ListedVariantIsDetected ==
    Returned("detectBrandImpersonation")
    /\ (\E b \in 1..Len(TARGET_BRANDS) : ContainsVariantOf(arg, TARGET_BRANDS[b]))
    => ret.brandImpersonation # Null

-----------------------------------------------------------------------------
(* The scan history, checked under SpecHistory *)

\* the items are in the order of their insertion, the newest first
NewestFirst(h) == \A k \in 1..(Len(h) - 1) : h[k].id > h[k + 1].id

\* the items of the addScan updates of a queue, the last made first
newestOf(q) == [k \in 1..Len(q) |-> q[Len(q) + 1 - k].items[1]]

\* C11: from a stored list of at most 50 items, after any addScan, removeItem
\* and clearHistory the history has at most 50 items, newest first; addScan puts
\* the new item at index 0 and drops the last item, and only it, when the
\* list already holds 50: the render of the updaters of n calls of addScan on
\* the loaded history puts their items first, the last call's at index 0, and
\* keeps the items before them but those beyond 50, the oldest
C11_HistoryCapped ==
    /\ [](Len(history) <= MAX_HISTORY /\ NewestFirst(history))
    /\ [][(/\ isLoaded
           /\ queue # <<>>
           /\ queue' = <<>>
           /\ \A k \in 1..Len(queue) : queue[k].op = "addScan") =>
            history' = newestOf(queue)
                       \o SubSeq(history, 1,
                                 Min(Len(history), MAX_HISTORY - Len(queue)))]_vars

\* addScan on a full list, rendered: item 51 is first, the oldest item 1 is
\* gone
C11_Witness ==
    /\ isLoaded
    /\ queue = <<>>
    /\ Len(history) = MAX_HISTORY
    /\ history[1].id = MAX_HISTORY + 1
    /\ history[MAX_HISTORY].id = 2

-----------------------------------------------------------------------------
(* The batch run and the export, checked under SpecBatch *)

\* rs has one entry per URL of list, in the order of list
OnePerUrl(rs, list) ==
    Len(rs) = Len(list) /\ \A k \in 1..Len(list) : rs[k].url = list[k]

\* text is the header line followed by one line per result, in order, each
\* starting with the quoted URL of its result
HeaderThenRows(text, rs) ==
    LET lines == split(text, "\n")
    IN  /\ Len(lines) = Len(rs) + 1
        /\ lines[1] = csvHeader
        /\ \A k \in 1..Len(rs) :
              startsWith(lines[k + 1], <<"\"">> \o rs[k].url \o <<"\"", ",">>)

\* C12: a finished run publishes one result per URL parsed from the text the
\* run was started on (duplicates kept) in input order and the export is the
\* header and one row per result in that order; during a run the published
\* list is empty and progress only grows, reaching 100 before the results are
\* published
C12_BatchRun ==
    /\ [](batchIsAnalyzing => results = <<>>)
    /\ [][bpc = "idle" /\ bpc' = "loop" => urlList' = parseUrls(urls)]_vars
    /\ [][bpc = "loop" /\ bpc' # "off" => urlList' = urlList]_vars
    /\ [][bpc = "loop" /\ bpc' = "loop" /\ progress' # progress =>
            /\ progress'[1] * progress[2] > progress[1] * progress'[2]
            /\ progress'[1] <= progress'[2]]_vars
    /\ [][bpc = "loop" /\ bpc' = "idle" =>
            /\ progress[1] = progress[2]
            /\ OnePerUrl(results', urlList)]_vars
    /\ [][csv' # csv => HeaderThenRows(csv', results)]_vars

\* a finished run of a text that names the same URL twice, exported
C12_Witness ==
    /\ bpc = "idle"
    /\ ~batchIsAnalyzing
    /\ Len(results) = 2
    /\ results[1].url = results[2].url
    /\ csv = exportResults(results)

-----------------------------------------------------------------------------
(* The typosquatting score, checked under Spec *)

hasDigit(s) == \E k \in 1..Len(s) : isDigit(s[k])

Indicator(b) == IF b THEN 1 ELSE 0

\* the score with the four components given
TyposquattingOf(digit, brand, homograph, repeated) ==
    Min(100, 20 * Indicator(digit) + 40 * Indicator(brand)
             + 30 * Indicator(homograph) + 10 * Indicator(repeated))

\* C17: a URL whose host portion contains a digit has the +20 component in
\* its typosquattingScore, with a scheme as well as without one
C17_HostDigitAdds20 ==
    pc = "shown" /\ hasDigit(advancedHostname(reqUrl)) =>
        locals.advancedFeatures.typosquattingScore =
            TyposquattingOf(TRUE,
                            locals.advancedFeatures.brandImpersonation # Null,
                            detectHomographs(reqUrl),
                            hasRepeatedChars(reqUrl))

\* C18: the typosquattingScore of a result has the +30 component exactly when
\* the hasHomographChars of that result is true
C18_HomographComponentMatchesField ==
    pc = "shown" =>
        locals.advancedFeatures.typosquattingScore =
            TyposquattingOf(hasDigit(splitFirst(toLowerCase(reqUrl), "/")),
                            locals.advancedFeatures.brandImpersonation # Null,
                            locals.advancedFeatures.hasHomographChars,
                            hasRepeatedChars(reqUrl))

-----------------------------------------------------------------------------
(* The string the extractors parse, and hasDoubleSlash, checked under Spec *)

\* the input begins with the scheme of a web address, in either case
carriesScheme(url) ==
    \/ startsWith(toLowerCase(url), Str("http:"))
    \/ startsWith(toLowerCase(url), Str("https:"))

\* the string the claim has parsed: "https://" + input for an input without
\* a scheme, the input itself otherwise
parsedAsClaimed(url) ==
    IF carriesScheme(url) THEN url ELSE Str("https://") \o url

\* C19: both extractors parse "https://" + input exactly when the input has
\* no scheme (also when its text begins with the letters "http"), and parse
\* an input that carries a scheme unchanged
C19_PrefixExactlyWhenSchemeless ==
    pc = "shown" =>
        /\ urlWithProtocol(reqUrl) = parsedAsClaimed(reqUrl)
        /\ locals.features =
               extractFeaturesFrom(reqUrl, parseURL(parsedAsClaimed(reqUrl)))
        /\ locals.advancedFeatures.entropyScore =
               calculateEntropy(hostnameOr(reqUrl,
                                           parseURL(parsedAsClaimed(reqUrl))))

\* the text after the first "://" of a string
afterSeparator(text) == substringFrom(text, indexOf(text, Str("://")) + 3)

\* C20: hasDoubleSlash is true exactly when a "//" occurs after the scheme
\* separator of the string handed to new URL, whether new URL parsed it or
\* threw: an input whose only "//" is the separator itself has
\* hasDoubleSlash false
C20_DoubleSlashAfterSeparator ==
    pc = "shown" /\ includes(urlWithProtocol(reqUrl), Str("://")) =>
        locals.features.hasDoubleSlash =
            includes(afterSeparator(urlWithProtocol(reqUrl)), Str("//"))

-----------------------------------------------------------------------------
(* The subdomain count, checked under Spec *)

\* hostname.split('.').length
labelCount(hostname) == countChar(hostname, ".") + 1

\* the two fields and the finding a count of subdomains asks for
SubdomainFieldsAre(features, finding, count) ==
    /\ features.subdomainCount = count
    /\ features.hasMultipleSubdomains = (count > 2)
    /\ finding.feature = "Subdomain Count"
    /\ finding.riskLevel = (IF count > 2 THEN "danger"
                            ELSE IF count = 2 THEN "warning" ELSE "safe")
    /\ finding.weight = (IF count > 2 THEN 25 ELSE IF count = 2 THEN 10 ELSE 0)

\* C21: the BasicFeatures of every input, parsed or analysed from the raw
\* string, have subdomainCount = max(0, labels of the hostname - 2) and
\* hasMultipleSubdomains = (subdomainCount > 2), the hostname of an input new
\* URL throws on being the raw string up to its first "/"; the Subdomain
\* Count finding is danger/2.5, warning/1 or safe/0 accordingly
C21_SubdomainCountFromLabels ==
    pc = "shown" =>
        SubdomainFieldsAre(locals.features, result.analysis[7],
                           Max(0, labelCount(advancedHostname(reqUrl)) - 2))

-----------------------------------------------------------------------------
(* levenshteinDistance, checked under SpecRules *)

\* the unit-cost edit distance by its recurrence on the last characters
RECURSIVE editDistance(_, _)
editDistance(a, b) ==
    IF a = <<>> THEN Len(b)
    ELSE IF b = <<>> THEN Len(a)
    ELSE LET a0 == SubSeq(a, 1, Len(a) - 1)
             b0 == SubSeq(b, 1, Len(b) - 1)
         IN  IF a[Len(a)] = b[Len(b)] THEN editDistance(a0, b0)
             ELSE 1 + Min(editDistance(a0, b0),
                          Min(editDistance(a0, b), editDistance(a, b0)))

ReturnedDistance == rpc = "return" /\ fn = "levenshteinDistance"

\* C22: levenshteinDistance is the unit-cost edit distance: 0 for a word and
\* itself, the same in both orders, 3 for "kitten" and "sitting", and never
\* more than the longer length, so that 1 - distance / maxLen is in [0, 1]
C22_LevenshteinIsEditDistance ==
    ReturnedDistance =>
        /\ arg.a = arg.b => ret.distance = 0
        /\ ret.distance = levenshteinDistance(arg.b, arg.a)
        /\ arg.a = Str("kitten") /\ arg.b = Str("sitting") => ret.distance = 3
        /\ ret.distance \in 0..Max(Len(arg.a), Len(arg.b))
        /\ Len(arg.a) <= MaxWordLen + 1 /\ Len(arg.b) <= MaxWordLen + 1 =>
               ret.distance = editDistance(arg.a, arg.b)

\* the scenario of the spec has been computed
C22_Witness ==
    /\ ReturnedDistance
    /\ arg.a = Str("kitten")
    /\ arg.b = Str("sitting")
    /\ ret.distance = 3

-----------------------------------------------------------------------------
(* calculateEntropy, checked under SpecRules *)

Chars(str) == {str[k] : k \in 1..Len(str)}

\* every character of the string occurs equally often
Uniform(str) ==
    \A c, d \in Chars(str) : countChar(str, c) = countChar(str, d)

\* a string with the characters in the opposite order
Reversed(str) == [k \in 1..Len(str) |-> str[Len(str) + 1 - k]]

ReturnedEntropy == rpc = "return" /\ fn = "calculateEntropy"

\* C23: calculateEntropy is 0 for the empty string and for one repeated
\* character, exactly 1.00 for two characters occurring equally often, and in
\* general the Shannon entropy of the character frequencies in bits, rounded
\* to two decimals: log2(k) for k characters occurring equally often, at most
\* that for any string of k characters, 0.92 for the frequencies 2/3 and 1/3,
\* and the same for the characters in any order
C23_EntropyValues ==
    ReturnedEntropy =>
        /\ arg = <<>> => ret.entropyScore = 0
        /\ Cardinality(Chars(arg)) = 1 => ret.entropyScore = 0
        /\ Cardinality(Chars(arg)) = 2 /\ Uniform(arg) => ret.entropyScore = 100
        /\ Cardinality(Chars(arg)) = 3 /\ Uniform(arg) => ret.entropyScore = 158
        /\ Cardinality(Chars(arg)) = 4 /\ Uniform(arg) => ret.entropyScore = 200
        /\ Cardinality(Chars(arg)) = 8 /\ Uniform(arg) => ret.entropyScore = 300
        /\ arg = Str("aab") => ret.entropyScore = 92
        /\ arg = Str("abca") => ret.entropyScore = 150
        /\ arg = Str("google.com") => ret.entropyScore = 265
        /\ arg # <<>> => ret.entropyScore \in 0..(100 * Cardinality(Chars(arg)))
        /\ ret.entropyScore = calculateEntropy(Reversed(arg))

\* the entropy of "ab" has been computed
C23_Witness ==
    /\ ReturnedEntropy
    /\ arg = Str("ab")
    /\ ret.entropyScore = 100

-----------------------------------------------------------------------------
(* portAnomalies, checked under Spec *)

StandardPorts == {80, 443, 8080, 8443}

\* the port a URL record names: of the ports an authority can name, the record
\* leaves out only the default port of the scheme (80 or 443)
explicitPortIsAnomalous(parsedUrl) ==
    parsedUrl.port # <<>> /\ parseInt(parsedUrl.port) \notin StandardPorts

PortAnomaliesAre(advancedFeatures, parsedUrl) ==
    parsedUrl.ok =>
        advancedFeatures.portAnomalies = explicitPortIsAnomalous(parsedUrl)

\* C24: portAnomalies is true exactly when the authority of the URL names a
\* port that is not 80, 443, 8080 or 8443: never for a URL without a port,
\* whatever its path, query or userinfo holds, and always for a URL with
\* another port
C24_PortAnomaliesIsExplicitPort ==
    pc = "shown" =>
        PortAnomaliesAre(locals.advancedFeatures,
                         parseURL(parsedAsClaimed(reqUrl)))

-----------------------------------------------------------------------------
(* The inline classifications, checked under SpecRules *)

ReturnedCombined == rpc = "return" /\ fn = "combine"

ReturnedRender == rpc = "return" /\ fn = "AnalysisResult"

\* C25: the classification of handleAnalyze, that of the batch handleAnalyze
\* and the displayClassification of AnalysisResult (with its fallback to the
\* classification prop when combinedScore is 0 or left out) are
\* classifyURL of the score they go with, for every score in 0..100: the
\* label shown is the step function of the score shown
C25_InlineClassificationsAgree ==
    /\ ReturnedCombined =>
           /\ ret.classification = classifyURL(ret.combinedScore)
           /\ ret.batchClassification = classifyURL(ret.batchCombinedScore)
    /\ ReturnedRender =>
           /\ arg.combinedScore # <<>> => ret.displayScore = arg.combinedScore[1]
           /\ ret.displayScore \in 0..100
           /\ ret.displayClassification = classifyURL(ret.displayScore)

\* a combinedScore of 0 has been rendered: the label is the classification prop
C25_Witness ==
    /\ ReturnedRender
    /\ arg.combinedScore = <<0>>
    /\ ret.displayScore = 0
    /\ ret.displayClassification = "legitimate"

-----------------------------------------------------------------------------
(* The save effect of useScanHistory, checked under SpecHistory *)

\* the items of a history that are items of a stored list
fromStore(h, items) ==
    SelectSeq(h, LAMBDA item : \E k \in 1..Len(items) : items[k] = item)

\* the render of the load takes a stored list as the history, behind the
\* scans added since and cut at the cap, and leaves the store as it was
LoadTakesStored ==
    [][~isLoaded /\ isLoaded' /\ storage.present =>
            LET kept == fromStore(history', storage.items)
            IN  /\ storage' = storage
                /\ kept = SubSeq(storage.items, 1, Len(kept))
                /\ kept = SubSeq(history', Len(history') - Len(kept) + 1,
                                 Len(history'))
                /\ Len(kept) = Len(storage.items) \/ Len(history') = MAX_HISTORY]_vars

-----------------------------------------------------------------------------
(* The two instances of the hook, checked under SpecViews *)

\* C26: an entry removed in the history tab, by removeItem or by
\* clearHistory, is absent from the stored list from then on, whatever scans,
\* tab switches and reloads follow (a new scan of its URL is a new entry): the
\* addScan of the page-level instance does not write it back
C26_RemovalIsDurable == removed \cap StoredIds(storage) = {}

-----------------------------------------------------------------------------
(* Overlapping requests, checked under SpecOverlap *)

\* C28: isAnalyzing is true in every state in which a call of handleAnalyze
\* has started and has not yet called setResult, also when calls overlap
C28_AnalyzingWhilePending == pending # <<>> => isAnalyzing

\* a result is displayed: the last call of setResult was not setResult(null),
\* which every start makes together with setIsAnalyzing(true)
ResultDisplayed == pc # "idle" /\ ~isAnalyzing

\* C29: the result displayed is that of the most recently requested URL: no
\* result of an earlier request is displayed after a new request, and when
\* every call has completed the result is that of the last request
C29_ResultIsOfLastRequest == ResultDisplayed => result.url = reqUrl

-----------------------------------------------------------------------------
(* The weight of the basic layer, checked under SpecRules *)

\* C30: the basic layer alone never gives a combined phishing verdict: with
\* advancedScore 0 the combinedScore is round(0.4 * basicScore), at most 40,
\* and the classification is legitimate or suspicious, for every basicScore;
\* with advancedScore 100 the combinedScore is at least 60 and the
\* classification is phishing; on the page and in the batch tab
C30_BasicAloneIsNeverPhishing ==
    ReturnedCombined =>
        /\ arg.advancedScore = 0 =>
              /\ ret.combinedScore = RoundDiv(4 * arg.riskScore, 10)
              /\ ret.combinedScore <= 40
              /\ ret.classification \in {"legitimate", "suspicious"}
              /\ ret.batchCombinedScore = ret.combinedScore
              /\ ret.batchClassification \in {"legitimate", "suspicious"}
        /\ arg.advancedScore = 100 =>
              /\ ret.combinedScore >= 60
              /\ ret.classification = "phishing"
              /\ ret.batchCombinedScore >= 60
              /\ ret.batchClassification = "phishing"

\* the highest basicScore with advancedScore 0 has been combined
C30_Witness ==
    /\ ReturnedCombined
    /\ arg.riskScore = 100
    /\ arg.advancedScore = 0
    /\ ret.combinedScore = 40
    /\ ret.classification = "suspicious"

=============================================================================
